---- MODULE Spec2Model ----
(***************************************************************************)
(* A model of the classification-and-drift pipeline of SNA:                *)
(*   sna/baseline/baseline_manager.py   BaselineManager                    *)
(*   sna/core/scoring.py                SeverityScorer                     *)
(*   sna/core/security.py, logs.py      finding builders                   *)
(*   analyzer_new.py                    SNACore.run_audit, main            *)
(*   sna/core/recommendations.py        RecommendationsEngine              *)
(*   sna/utils/command_runner.py        CommandRunner                      *)
(*   ai_engine.py                       AIEngine                           *)
(*                                                                         *)
(* Python dicts are functions whose DOMAIN is the set of keys present, so  *)
(* dict.get(key, default) is Get.  Python strings are strings, taken apart *)
(* with Len and SubSeq; Python lists are sequences.                        *)
(***************************************************************************)
EXTENDS Integers, Sequences, FiniteSets, TLC

VARIABLES
    files,      \* the .baseline directory: file name -> persisted JSON document
    now,        \* the wall clock read by datetime.now(), in half seconds
    everSaved,  \* history: the names under which save() has written a file
    lastOp,     \* history: the BaselineManager call that ran last
    ret,        \* the value that call returned
    call        \* one call of a function of the scoring pipeline: its name,
                \* its arguments and, once it has run, what it returned

store_vars == <<files, now, everSaved, lastOp, ret>>

vars == <<files, now, everSaved, lastOp, ret, call>>

----------------------------------------------------------------------------
(* Bounds *)

MaxTime == 2        \* the clock stops advancing after this many half seconds
MaxPct == 100       \* usage percentages range over 0..MaxPct
DriftLo == 68       \* drift detection sweeps each usage percentage over
DriftHi == 92       \*   DriftLo..DriftHi
MaxFindings == 4    \* longest finding list handed to the aggregation functions
MaxLogins == 22     \* failed_ssh_logins ranges over 0..MaxLogins
MaxCount == 2       \* the other log counters range over 0..MaxCount

----------------------------------------------------------------------------
(* Python values *)

EmptyDict == <<>>
None == [none |-> TRUE]

Get(d, k, dflt) == IF k \in DOMAIN d THEN d[k] ELSE dflt

Put(d, k, v) == [n \in DOMAIN d \cup {k} |-> IF n = k THEN v ELSE d[n]]

\* truth value of a value that is None or a dict
Truthy(v) == v # None /\ DOMAIN v # {}

\* truth value of d.get(k) where d[k], if present, is a str
TruthyStr(d, k) == k \in DOMAIN d /\ d[k] # ""

Abs(x) == IF x < 0 THEN -x ELSE x

Range(s) == {s[i] : i \in 1..Len(s)}

Perms(S) == {s \in [1..Cardinality(S) -> S] : Range(s) = S}

\* s[i - 1] of a str
Char(s, i) == SubSeq(s, i, i)

\* the characters of names, in the order of their code points
Alphabet == "-0123456789_abcdefghijklmnopqrstuvwxyz"

Ord(c) == CHOOSE i \in 1..Len(Alphabet) : Char(Alphabet, i) = c

\* Python's < on str
StrLess(a, b) ==
    \E i \in 1..(Len(a) + 1) :
        /\ i - 1 <= Len(b)
        /\ SubSeq(a, 1, i - 1) = SubSeq(b, 1, i - 1)
        /\ \/ i = Len(a) + 1 /\ Len(b) >= i
           \/ i <= Len(a) /\ i <= Len(b) /\ Ord(Char(a, i)) < Ord(Char(b, i))

\* sorted(list of distinct str)
Sorted(S) == CHOOSE s \in Perms(S) : \A i \in 1..(Len(s) - 1) : StrLess(s[i], s[i + 1])

\* str.split(sep) with a one-character separator
RECURSIVE Split(_, _)
Split(s, sep) ==
    IF \A i \in 1..Len(s) : Char(s, i) # sep
    THEN <<s>>
    ELSE LET i == CHOOSE k \in 1..Len(s) :
                      Char(s, k) = sep /\ \A j \in 1..(k - 1) : Char(s, j) # sep
         IN  <<SubSeq(s, 1, i - 1)>> \o Split(SubSeq(s, i + 1, Len(s)), sep)

UpperCase == "ABCDEFGHIJKLMNOPQRSTUVWXYZ"
LowerCase == "abcdefghijklmnopqrstuvwxyz"
Digits == "0123456789"
Whitespace == {" ", "\t", "\r"}

\* c in chars, for a one-character str c
OneOf(c, chars) == \E i \in 1..Len(chars) : Char(chars, i) = c

\* str.lower()
RECURSIVE Lower(_)
Lower(s) ==
    IF s = ""
    THEN ""
    ELSE (IF OneOf(Head(s), UpperCase)
          THEN Char(LowerCase, CHOOSE i \in 1..Len(UpperCase) : Char(UpperCase, i) = Head(s))
          ELSE Head(s))
         \o Lower(Tail(s))

\* sub in s
Contains(s, sub) ==
    \E i \in 1..(Len(s) - Len(sub) + 1) : SubSeq(s, i, i + Len(sub) - 1) = sub

\* str.startswith
StartsWith(s, prefix) == Len(s) >= Len(prefix) /\ SubSeq(s, 1, Len(prefix)) = prefix

\* str.strip()
Strip(s) ==
    LET kept == {i \in 1..Len(s) : Char(s, i) \notin Whitespace}
    IN  IF kept = {}
        THEN ""
        ELSE SubSeq(s, CHOOSE i \in kept : \A j \in kept : i <= j,
                       CHOOSE i \in kept : \A j \in kept : i >= j)

\* sep.join(list of str)
RECURSIVE Join(_, _)
Join(sep, list) ==
    IF list = <<>> THEN ""
    ELSE IF Len(list) = 1 THEN list[1]
    ELSE list[1] \o sep \o Join(sep, Tail(list))

\* datetime.now().strftime("%Y%m%d_%H%M%S"): the clock truncated to whole seconds
StrfTime(t) == ToString(t \div 2)

\* datetime.now().isoformat(): keeps the sub-second part
IsoFormat(t) == t

----------------------------------------------------------------------------
(* BaselineManager *)

BaselinePrefix == "baseline_"
JsonSuffix == ".json"

\* self.baseline_dir / f"{name}.json"
baseline_file(name) == name \o JsonSuffix

\* Path.stem of a file name that ends in .json
Stem(fname) == SubSeq(fname, 1, Len(fname) - Len(JsonSuffix))

\* fnmatch of a file name against the pattern "baseline_*.json"
GlobMatch(fname) ==
    /\ Len(fname) >= Len(BaselinePrefix) + Len(JsonSuffix)
    /\ SubSeq(fname, 1, Len(BaselinePrefix)) = BaselinePrefix
    /\ SubSeq(fname, Len(fname) - Len(JsonSuffix) + 1, Len(fname)) = JsonSuffix

\* a dict whose active_services is the split string, a list holding the
\* empty name for the empty string
BaselineDataSplit(system_data, name, timestamp) ==
    LET health   == Get(system_data, "health", EmptyDict)
        services == Get(Get(system_data, "users_services", EmptyDict), "services", EmptyDict)
        users    == Get(Get(system_data, "users_services", EmptyDict), "users", EmptyDict)
        ssh      == Get(system_data, "ssh_config", EmptyDict)
    IN  [timestamp |-> timestamp,
         name      |-> name,
         system    |-> [cpu    |-> Get(health, "cpu", EmptyDict),
                        memory |-> Get(health, "memory", EmptyDict),
                        disk   |-> Get(health, "disk", EmptyDict)],
         services  |-> [active_count    |-> Get(services, "active_count", 0),
                        active_services |->
                            Split(Get(services, "active_services", ""), ",")],
         users     |-> [logged_in_count |-> Get(users, "logged_in_count", 0)],
         security  |-> [ssh_root_login    |-> Get(ssh, "root_login_enabled", "unknown"),
                        ssh_password_auth |-> Get(ssh, "password_auth_enabled", "unknown")]]

\* the dict that save() serialises
BaselineData(system_data, name, timestamp) ==
    LET health   == Get(system_data, "health", EmptyDict)
        services == Get(Get(system_data, "users_services", EmptyDict), "services", EmptyDict)
        users    == Get(Get(system_data, "users_services", EmptyDict), "users", EmptyDict)
        ssh      == Get(system_data, "ssh_config", EmptyDict)
    IN  [timestamp |-> timestamp,
         name      |-> name,
         system    |-> [cpu    |-> Get(health, "cpu", EmptyDict),
                        memory |-> Get(health, "memory", EmptyDict),
                        disk   |-> Get(health, "disk", EmptyDict)],
         services  |-> [active_count    |-> Get(services, "active_count", 0),
                        active_services |->
                            IF TruthyStr(services, "active_services")
                            THEN Split(Get(services, "active_services", ""), ",")
                            ELSE <<>>],
         users     |-> [logged_in_count |-> Get(users, "logged_in_count", 0)],
         security  |-> [ssh_root_login    |-> Get(ssh, "root_login_enabled", "unknown"),
                        ssh_password_auth |-> Get(ssh, "password_auth_enabled", "unknown")]]

\* the part of a persisted document that is derived from the system data
Subset(doc) == [k \in {"system", "services", "users", "security"} |-> doc[k]]

\* load() that falls back to some persisted baseline when the name is absent
load_any(dir, name) ==
    IF baseline_file(name) \in DOMAIN dir
    THEN dir[baseline_file(name)]
    ELSE IF DOMAIN dir = {}
         THEN None
         ELSE dir[CHOOSE f \in DOMAIN dir : TRUE]

\* an exception that leaves a call
Raises(exception) == [raised |-> exception]

\* the content of a file that json.load cannot decode
Unparsable == [unparsable |-> TRUE]

\* BaselineManager.load: the file is read back with json.load, which returns
\* the document json.dump wrote (ints, strings, lists and dicts only) and
\* raises on any other content
load(dir, name) ==
    IF baseline_file(name) \notin DOMAIN dir
    THEN None
    ELSE IF dir[baseline_file(name)] = Unparsable
    THEN Raises("JSONDecodeError")
    ELSE dir[baseline_file(name)]

\* BaselineManager.list_baselines
list_baselines(dir) == Sorted({Stem(f) : f \in {g \in DOMAIN dir : GlobMatch(g)}})

\* the names of the string split without the test for an empty string
current_services_split(current_data) ==
    LET services == Get(Get(current_data, "users_services", EmptyDict), "services", EmptyDict)
    IN  Range(Split(Get(services, "active_services", ""), ","))

\* set(...) of the comma-joined active_services string of the current data
current_services(current_data) ==
    LET services == Get(Get(current_data, "users_services", EmptyDict), "services", EmptyDict)
    IN  IF TruthyStr(services, "active_services")
        THEN Range(Split(Get(services, "active_services", ""), ","))
        ELSE {}

\* set(...) of the persisted active_services list
baseline_services(baseline) ==
    Range(Get(Get(baseline, "services", EmptyDict), "active_services", <<>>))

usage_percent(section, metric) ==
    Get(Get(section, metric, EmptyDict), "usage_percent", 0)

\* a spike test that fires at exactly 10 points and on increases only
resource_spike_up(metric, baseline_pct, current_pct) ==
    IF current_pct - baseline_pct >= 10
    THEN <<[type     |-> "resource_spike",
            metric   |-> metric,
            baseline |-> baseline_pct,
            current  |-> current_pct,
            change   |-> current_pct - baseline_pct]>>
    ELSE <<>>

\* the CPU and the Memory comparison
resource_spike(metric, baseline_pct, current_pct) ==
    IF Abs(current_pct - baseline_pct) > 10
    THEN <<[type     |-> "resource_spike",
            metric   |-> metric,
            baseline |-> baseline_pct,
            current  |-> current_pct,
            change   |-> current_pct - baseline_pct]>>
    ELSE <<>>

\* a disk test that is symmetric like the spike test
disk_growth_abs(baseline_disk, current_disk) ==
    IF Abs(current_disk - baseline_disk) > 5
    THEN <<[type     |-> "disk_growth",
            metric   |-> "Disk",
            baseline |-> baseline_disk,
            current  |-> current_disk,
            change   |-> current_disk - baseline_disk]>>
    ELSE <<>>

\* the Disk comparison
disk_growth(baseline_disk, current_disk) ==
    IF current_disk > baseline_disk + 5
    THEN <<[type     |-> "disk_growth",
            metric   |-> "Disk",
            baseline |-> baseline_disk,
            current  |-> current_disk,
            change   |-> current_disk - baseline_disk]>>
    ELSE <<>>

\* the two service comparisons; list(set) yields the names in some order
services_change(type, names, listed) ==
    IF names # {} THEN <<[type |-> type, services |-> listed]>> ELSE <<>>

\* the user count comparison
user_count_change(baseline_users, current_users) ==
    IF current_users # baseline_users
    THEN <<[type |-> "user_count_change", baseline |-> baseline_users, current |-> current_users]>>
    ELSE <<>>

\* the service comparisons moved in front of the resource comparisons
drift_changes_services_first(cpu, memory, disk, new, removed, users) ==
    new \o removed \o cpu \o memory \o disk \o users

\* the order in which compare() appends to drift["changes"]
drift_changes(cpu, memory, disk, new, removed, users) ==
    cpu \o memory \o disk \o new \o removed \o users

\* the changes list of compare(), given the orders list(set) produced
changes_of(current_data, baseline, new_list, removed_list) ==
    LET health == Get(current_data, "health", EmptyDict)
        system == Get(baseline, "system", EmptyDict)
        current_users ==
            Get(Get(Get(current_data, "users_services", EmptyDict), "users", EmptyDict),
                "logged_in_count", 0)
        baseline_users == Get(Get(baseline, "users", EmptyDict), "logged_in_count", 0)
    IN  drift_changes(
            resource_spike("CPU", usage_percent(system, "cpu"), usage_percent(health, "cpu")),
            resource_spike("Memory", usage_percent(system, "memory"), usage_percent(health, "memory")),
            disk_growth(usage_percent(system, "disk"), usage_percent(health, "disk")),
            services_change("new_services",
                            current_services(current_data) \ baseline_services(baseline), new_list),
            services_change("removed_services",
                            baseline_services(baseline) \ current_services(current_data), removed_list),
            user_count_change(baseline_users, current_users))

\* every value compare() can return
compare_results(dir, clock, current_data, baseline_name) ==
    LET baseline == load(dir, baseline_name)
    IN  IF baseline = Raises("JSONDecodeError")
        THEN {baseline}
        ELSE IF ~Truthy(baseline)
        THEN {[error |-> "Baseline '" \o baseline_name \o "' not found"]}
        ELSE {[baseline_name        |-> baseline_name,
               baseline_timestamp   |-> Get(baseline, "timestamp", None),
               comparison_timestamp |-> IsoFormat(clock),
               changes              |-> changes_of(current_data, baseline, nl, rl)] :
                  nl \in Perms(current_services(current_data) \ baseline_services(baseline)),
                  rl \in Perms(baseline_services(baseline) \ current_services(current_data))}

----------------------------------------------------------------------------
(* LogAnalyzer *)

known_services ==
    <<"apache2", "nginx", "mysql", "postgresql", "systemd", "ssh", "sshd",
      "cron", "rsyslog", "network", "dbus", "polkit", "systemd-logind">>

\* the record analyze() starts from, and returns for an empty text
empty_analysis ==
    [failed_ssh_logins       |-> 0,
     authentication_failures |-> 0,
     service_errors          |-> <<>>,
     auth_warnings           |-> 0,
     permission_denied       |-> 0,
     segfaults               |-> 0,
     kernel_errors           |-> 0,
     sudo_misuse             |-> 0,
     service_restarts        |-> 0]

\* analysis[key] += 1 under a condition
Count(analysis, key, condition) ==
    IF condition THEN [analysis EXCEPT ![key] = @ + 1] ELSE analysis

\* list.append(item) unless the item is in the list
AppendNew(list, item) == IF item \in Range(list) THEN list ELSE Append(list, item)

\* patterns that count a failed password as a failed login only
auth_patterns_apart(analysis, line_lower) ==
    LET a0 == Count(analysis, "failed_ssh_logins", Contains(line_lower, "failed password"))
        a1 == Count(a0, "authentication_failures",
                    Contains(line_lower, "authentication failure"))
        a2 == Count(a1, "permission_denied", Contains(line_lower, "permission denied"))
        a3 == Count(a2, "auth_warnings",
                    /\ Contains(line_lower, "warning")
                    /\ Contains(line_lower, "auth") \/ Contains(line_lower, "ssh"))
    IN  Count(a3, "sudo_misuse",
              /\ Contains(line_lower, "sudo")
              /\ Contains(line_lower, "failed") \/ Contains(line_lower, "incorrect"))

\* the authentication patterns
auth_patterns(analysis, line_lower) ==
    LET a1 == IF Contains(line_lower, "failed password")
                     \/ Contains(line_lower, "authentication failure")
              THEN [analysis EXCEPT !.failed_ssh_logins = @ + 1,
                                    !.authentication_failures = @ + 1]
              ELSE analysis
        a2 == Count(a1, "permission_denied", Contains(line_lower, "permission denied"))
        a3 == Count(a2, "auth_warnings",
                    /\ Contains(line_lower, "warning")
                    /\ Contains(line_lower, "auth") \/ Contains(line_lower, "ssh"))
    IN  Count(a3, "sudo_misuse",
              /\ Contains(line_lower, "sudo")
              /\ Contains(line_lower, "failed") \/ Contains(line_lower, "incorrect"))

\* re.search(r'([a-z][a-z0-9-]+)\.service[:\s]', line_lower): the spans
\* <<first, last>> of group 1 over all the places the pattern matches
service_matches(line_lower) ==
    LET lasts == {e \in 2..(Len(line_lower) - 9) :
                     /\ SubSeq(line_lower, e + 1, e + 8) = ".service"
                     /\ Char(line_lower, e + 9) \in Whitespace \cup {":"}}
    IN  {m \in (1..Len(line_lower)) \X lasts :
            /\ m[1] < m[2]
            /\ OneOf(Char(line_lower, m[1]), LowerCase)
            /\ \A k \in (m[1] + 1)..m[2] :
                   OneOf(Char(line_lower, k), LowerCase \o Digits \o "-")}

\* group(1) of the leftmost match
service_match(line_lower) ==
    LET m == CHOOSE x \in service_matches(line_lower) :
                 \A y \in service_matches(line_lower) : x[1] <= y[1]
    IN  SubSeq(line_lower, m[1], m[2])

\* the loop over known_services, from position i on
RECURSIVE known_service_errors(_, _, _)
known_service_errors(list, line_lower, i) ==
    IF i > Len(known_services)
    THEN list
    ELSE known_service_errors(
             IF /\ Contains(line_lower, known_services[i])
                /\ Contains(line_lower, "error") \/ Contains(line_lower, "fail")
             THEN AppendNew(list, known_services[i])
             ELSE list,
             line_lower, i + 1)

\* the system patterns and the extraction of service names
sys_patterns(analysis, line_lower) ==
    LET a1 == Count(analysis, "permission_denied", Contains(line_lower, "permission denied"))
        a2 == Count(a1, "segfaults",
                    Contains(line_lower, "segfault") \/ Contains(line_lower, "segmentation fault"))
        a3 == Count(a2, "kernel_errors",
                    /\ Contains(line_lower, "kernel")
                    /\ Contains(line_lower, "error") \/ Contains(line_lower, "fail"))
        a4 == Count(a3, "service_restarts",
                    /\ Contains(line_lower, "restart") \/ Contains(line_lower, "stopped")
                    /\ \E i \in 1..Len(known_services) : Contains(line_lower, known_services[i]))
        matched == IF service_matches(line_lower) # {}
                   THEN AppendNew(a4.service_errors, service_match(line_lower))
                   ELSE a4.service_errors
    IN  [a4 EXCEPT !.service_errors = known_service_errors(matched, line_lower, 1)]

\* one iteration of the loop over the lines
scan_line(scan, line) ==
    IF Strip(line) = "" \/ StartsWith(Strip(line), "===")
    THEN scan
    ELSE IF Contains(line, "AUTHENTICATION LOG")
    THEN [scan EXCEPT !.auth_section = TRUE, !.sys_section = FALSE]
    ELSE IF Contains(line, "SYSTEM ERROR LOG")
    THEN [scan EXCEPT !.auth_section = FALSE, !.sys_section = TRUE]
    ELSE LET line_lower == Lower(line)
             a1 == IF scan.auth_section
                   THEN auth_patterns(scan.analysis, line_lower)
                   ELSE scan.analysis
         IN  [scan EXCEPT !.analysis = IF scan.sys_section
                                       THEN sys_patterns(a1, line_lower)
                                       ELSE a1]

\* the loop over the lines
RECURSIVE scan_lines(_, _)
scan_lines(scan, lines) ==
    IF lines = <<>> THEN scan ELSE scan_lines(scan_line(scan, Head(lines)), Tail(lines))

\* LogAnalyzer.analyze
analyze(log_text) ==
    IF log_text = ""
    THEN empty_analysis
    ELSE LET scan == scan_lines([analysis |-> empty_analysis,
                                 auth_section |-> FALSE,
                                 sys_section |-> FALSE],
                                Split(log_text, "\n"))
         IN  [scan.analysis EXCEPT !.service_errors = Sorted(Range(@))]

----------------------------------------------------------------------------
(* SeverityScorer *)

Finding(severity, metric, value) == [severity |-> severity, metric |-> metric, value |-> value]

\* the CPU tiers of the legacy analyzer: exclusive lower bounds
cpu_scoring_exclusive(cpu_pct) ==
    IF cpu_pct > 90 THEN <<Finding("CRITICAL", "CPU", cpu_pct)>>
    ELSE IF cpu_pct > 80 THEN <<Finding("HIGH", "CPU", cpu_pct)>>
    ELSE IF cpu_pct > 60 THEN <<Finding("MEDIUM", "CPU", cpu_pct)>>
    ELSE <<>>

\* score_health, CPU scoring
cpu_scoring(cpu_pct) ==
    IF cpu_pct >= 90 THEN <<Finding("CRITICAL", "CPU", cpu_pct)>>
    ELSE IF cpu_pct >= 80 THEN <<Finding("HIGH", "CPU", cpu_pct)>>
    ELSE IF cpu_pct >= 60 THEN <<Finding("MEDIUM", "CPU", cpu_pct)>>
    ELSE <<>>

\* score_health, Memory scoring
memory_scoring(mem_pct) ==
    IF mem_pct >= 90 THEN <<Finding("CRITICAL", "Memory", mem_pct)>>
    ELSE IF mem_pct >= 80 THEN <<Finding("HIGH", "Memory", mem_pct)>>
    ELSE IF mem_pct >= 75 THEN <<Finding("MEDIUM", "Memory", mem_pct)>>
    ELSE <<>>

\* score_health, Disk scoring
disk_scoring(disk_pct) ==
    IF disk_pct >= 90 THEN <<Finding("CRITICAL", "Disk", disk_pct)>>
    ELSE IF disk_pct >= 85 THEN <<Finding("HIGH", "Disk", disk_pct)>>
    ELSE IF disk_pct >= 75 THEN <<Finding("MEDIUM", "Disk", disk_pct)>>
    ELSE <<>>

score_health(health_data) ==
    cpu_scoring(usage_percent(health_data, "cpu"))
        \o memory_scoring(usage_percent(health_data, "memory"))
        \o disk_scoring(usage_percent(health_data, "disk"))

score_security(ssh_config) ==
    (IF Get(ssh_config, "root_login_enabled", "") = "yes"
     THEN <<Finding("HIGH", "SSH Root Login", "Enabled")>> ELSE <<>>)
        \o (IF Get(ssh_config, "password_auth_enabled", "") = "yes"
            THEN <<Finding("MEDIUM", "SSH Password Auth", "Enabled")>> ELSE <<>>)

\* score_logs, the failed login tiers
failed_logins_scoring(failed_logins) ==
    IF failed_logins > 20 THEN <<Finding("HIGH", "Failed Logins", failed_logins)>>
    ELSE IF failed_logins > 10 THEN <<Finding("MEDIUM", "Failed Logins", failed_logins)>>
    ELSE <<>>

score_logs(log_analysis) ==
    failed_logins_scoring(Get(log_analysis, "failed_ssh_logins", 0))
        \o (IF Len(Get(log_analysis, "service_errors", <<>>)) >= 1
            THEN <<Finding("MEDIUM", "Service Errors", Len(log_analysis.service_errors))>>
            ELSE <<>>)
        \o (IF Get(log_analysis, "kernel_errors", 0) >= 1
            THEN <<Finding("HIGH", "Kernel Errors", log_analysis.kernel_errors)>>
            ELSE <<>>)
        \o (IF Get(log_analysis, "segfaults", 0) > 0
            THEN <<Finding("HIGH", "Segfaults", log_analysis.segfaults)>>
            ELSE <<>>)

\* [f.get("severity") for f in all_findings if f.get("severity")]
severities_of(all_findings) ==
    {all_findings[i].severity :
        i \in {k \in 1..Len(all_findings) : "severity" \in DOMAIN all_findings[k]}}

\* an aggregation that tests HIGH before CRITICAL
compute_overall_severity_high_first(all_findings) ==
    LET severities == severities_of(all_findings)
    IN  IF "HIGH" \in severities THEN "HIGH"
        ELSE IF "CRITICAL" \in severities THEN "CRITICAL"
        ELSE IF "MEDIUM" \in severities THEN "MEDIUM"
        ELSE "LOW"

compute_overall_severity(all_findings) ==
    LET severities == severities_of(all_findings)
    IN  IF "CRITICAL" \in severities THEN "CRITICAL"
        ELSE IF "HIGH" \in severities THEN "HIGH"
        ELSE IF "MEDIUM" \in severities THEN "MEDIUM"
        ELSE IF Len(all_findings) > 0 THEN "LOW"
        ELSE "LOW"

\* compute_risk_score, the loop over the findings
RECURSIVE base_score(_)
base_score(all_findings) ==
    IF all_findings = <<>>
    THEN 0
    ELSE LET severity == Get(Head(all_findings), "severity", "LOW")
         IN  (IF severity = "CRITICAL" THEN 30
              ELSE IF severity = "HIGH" THEN 15
              ELSE IF severity = "MEDIUM" THEN 8
              ELSE IF severity = "LOW" THEN 2
              ELSE 0)
             + base_score(Tail(all_findings))

\* compute_risk_score, the additional scoring from the log analysis
log_score(log_analysis) ==
    IF DOMAIN log_analysis # {}
    THEN (IF Get(log_analysis, "failed_ssh_logins", 0) > 0 THEN 3 ELSE 0)
         + (IF Len(Get(log_analysis, "service_errors", <<>>)) > 0 THEN 5 ELSE 0)
         + (IF Get(log_analysis, "kernel_errors", 0) > 0 THEN 10 ELSE 0)
         + (IF Get(log_analysis, "auth_warnings", 0) > 0 THEN 2 ELSE 0)
    ELSE 0

Min(a, b) == IF a < b THEN a ELSE b

\* a risk score without the cap
compute_risk_score_uncapped(all_findings, log_analysis) ==
    base_score(all_findings) + log_score(log_analysis)

compute_risk_score(all_findings, log_analysis) ==
    Min(base_score(all_findings) + log_score(log_analysis), 100)

----------------------------------------------------------------------------
(* Finding builders of SecurityCollector and LogAnalyzer *)

Issue(severity, title, description, recommendation) ==
    [severity       |-> severity,
     title          |-> title,
     description    |-> description,
     recommendation |-> recommendation]

\* SecurityCollector.analyze_ssh_risks
analyze_ssh_risks(ssh_config) ==
    (IF Get(ssh_config, "root_login_enabled", "") = "yes"
     THEN <<Issue("HIGH", "SSH Root Login Enabled",
                  "Root login via SSH is enabled. This is a significant security risk.",
                  "Disable root SSH login by setting 'PermitRootLogin no' in /etc/ssh/sshd_config")>>
     ELSE <<>>)
        \o (IF Get(ssh_config, "password_auth_enabled", "") = "yes"
            THEN <<Issue("MEDIUM", "SSH Password Authentication Enabled",
                         "Password authentication is enabled. Key-based authentication is more secure.",
                         "Consider disabling password authentication and using SSH keys only")>>
            ELSE <<>>)

\* list[:n]
Take(list, n) == SubSeq(list, 1, Min(n, Len(list)))

\* LogAnalyzer.analyze_findings
analyze_findings(log_analysis) ==
    LET failed_logins == Get(log_analysis, "failed_ssh_logins", 0)
        service_errors == Get(log_analysis, "service_errors", <<>>)
        service_list == Join(", ", Take(service_errors, 5))
        segfaults == Get(log_analysis, "segfaults", 0)
        sudo_misuse == Get(log_analysis, "sudo_misuse", 0)
    IN  (IF failed_logins > 20
         THEN <<Issue("HIGH", "Potential Brute Force Attack",
                      "High number of failed SSH login attempts ("
                          \o ToString(failed_logins) \o ") detected.",
                      "Review /var/log/auth.log and consider implementing Fail2Ban")>>
         ELSE IF failed_logins > 10
         THEN <<Issue("MEDIUM", "Authentication Failures Detected",
                      "Multiple failed SSH login attempts ("
                          \o ToString(failed_logins) \o ") detected.",
                      "Monitor authentication logs and review access patterns")>>
         ELSE <<>>)
        \o (IF Len(service_errors) >= 1
            THEN <<Issue("MEDIUM", "Service Stability Risk",
                         "Service-related errors detected: " \o service_list,
                         "Review service logs for " \o service_list
                             \o " and check service status")>>
            ELSE <<>>)
        \o (IF Get(log_analysis, "kernel_errors", 0) >= 1
            THEN <<Issue("HIGH", "Kernel-Level Issues Detected",
                         "Kernel errors detected in system logs.",
                         "Investigate kernel errors immediately - may indicate hardware or driver issues")>>
            ELSE <<>>)
        \o (IF segfaults > 0
            THEN <<Issue("HIGH", "Application Crashes Detected",
                         "Segmentation faults detected (" \o ToString(segfaults) \o ").",
                         "Review application logs and check for memory corruption or compatibility issues")>>
            ELSE <<>>)
        \o (IF sudo_misuse > 5
            THEN <<Issue("MEDIUM", "Sudo Misuse Detected",
                         "Multiple failed sudo attempts (" \o ToString(sudo_misuse)
                             \o ") detected.",
                         "Review sudo access patterns and user permissions")>>
            ELSE <<>>)

----------------------------------------------------------------------------
(* RecommendationsEngine *)

recommendation_templates ==
    [cpu_high       |-> "Investigate high CPU usage - check running processes and consider resource optimization",
     memory_high    |-> "Review memory usage - identify memory-intensive processes and consider adding swap or RAM",
     disk_high      |-> "Disk space is running low - clean up old logs, temporary files, or unused packages",
     ssh_root       |-> "Disable root SSH login for better security - edit /etc/ssh/sshd_config",
     ssh_password   |-> "Consider disabling password authentication and using SSH keys only",
     failed_logins  |-> "Review authentication logs and consider implementing Fail2Ban to prevent brute force attacks",
     service_errors |-> "Investigate service errors - check service status and logs for misconfiguration",
     kernel_errors  |-> "Kernel errors detected - investigate hardware, drivers, or system stability issues",
     segfaults      |-> "Application crashes detected - review application logs and check for memory issues"]

\* generate, the recommendation chosen for one finding
recommendation_for(finding) ==
    LET metric == Lower(Get(finding, "metric", ""))
    IN  IF Contains(metric, "cpu") THEN recommendation_templates.cpu_high
        ELSE IF Contains(metric, "memory") THEN recommendation_templates.memory_high
        ELSE IF Contains(metric, "disk") THEN recommendation_templates.disk_high
        ELSE IF Contains(metric, "root") /\ Contains(metric, "ssh")
        THEN recommendation_templates.ssh_root
        ELSE IF Contains(metric, "password") /\ Contains(metric, "ssh")
        THEN recommendation_templates.ssh_password
        ELSE IF Contains(metric, "login") \/ Contains(metric, "auth")
        THEN recommendation_templates.failed_logins
        ELSE IF Contains(metric, "service") THEN recommendation_templates.service_errors
        ELSE IF Contains(metric, "kernel") THEN recommendation_templates.kernel_errors
        ELSE IF Contains(metric, "segfault") \/ Contains(metric, "crash")
        THEN recommendation_templates.segfaults
        ELSE Get(finding, "recommendation", "Review " \o Get(finding, "title", "issue"))

\* generate, the recommendations that are always included
baseline_recs ==
    <<"Schedule periodic audits using cron for continuous monitoring",
      "Maintain baseline snapshots after system updates or configuration changes",
      "Continue monitoring authentication logs for unusual patterns",
      "Review system health metrics regularly to detect trends">>

\* generate, appending each rec that is non-empty and not seen before
RECURSIVE append_unseen(_, _)
append_unseen(recommendations, recs) ==
    IF recs = <<>>
    THEN recommendations
    ELSE append_unseen(IF Head(recs) # "" /\ Head(recs) \notin Range(recommendations)
                       THEN Append(recommendations, Head(recs))
                       ELSE recommendations,
                       Tail(recs))

\* generate without the seen set
generate_repeating(findings, always_include_baseline) ==
    [i \in 1..Len(findings) |-> recommendation_for(findings[i])]
        \o (IF always_include_baseline THEN baseline_recs ELSE <<>>)

\* RecommendationsEngine.generate
generate(findings, always_include_baseline) ==
    LET from_findings ==
            append_unseen(<<>>, [i \in 1..Len(findings) |-> recommendation_for(findings[i])])
    IN  IF always_include_baseline
        THEN append_unseen(from_findings, baseline_recs)
        ELSE from_findings

----------------------------------------------------------------------------
(* SystemAnalyzer, the legacy orchestrator, and the status indicators *)

\* a finding of rule_based_analysis, without its message and description
Rated(metric, value, severity) == [metric |-> metric, value |-> value, severity |-> severity]

\* f"{pct:.1f}%" of an integer
OneDecimal(pct) == ToString(pct) \o ".0%"

\* rule_based_analysis, one usage percentage against its three tiers
rate_usage(metric, usage, value, critical, high, medium) ==
    IF usage > critical THEN <<Rated(metric, value, "CRITICAL")>>
    ELSE IF usage > high THEN <<Rated(metric, value, "HIGH")>>
    ELSE IF usage > medium THEN <<Rated(metric, value, "MEDIUM")>>
    ELSE <<>>

\* SystemAnalyzer.rule_based_analysis over self.data
rule_based_analysis(data) ==
    LET health == Get(data, "health", EmptyDict)
        ssh_config == Get(data, "ssh_config", EmptyDict)
        log_analysis == Get(data, "log_analysis", EmptyDict)
        cpu_usage == usage_percent(health, "cpu")
        mem_usage == usage_percent(health, "memory")
        disk_usage == usage_percent(health, "disk")
        failed_logins == Get(log_analysis, "failed_ssh_logins", 0)
        service_errors == Get(log_analysis, "service_errors", <<>>)
        kernel_errors == Get(log_analysis, "kernel_errors", 0)
        segfaults == Get(log_analysis, "segfaults", 0)
        auth_warnings == Get(log_analysis, "auth_warnings", 0)
        rated_health ==
            rate_usage("CPU Usage", cpu_usage, OneDecimal(cpu_usage), 90, 80, 60)
                \o rate_usage("Memory Usage", mem_usage, OneDecimal(mem_usage), 90, 80, 75)
                \o rate_usage("Disk Usage", disk_usage, ToString(disk_usage) \o "%", 90, 85, 75)
                \o (IF Len(service_errors) >= 1
                    THEN <<Rated("Service Stability Risk",
                                 Join(", ", Take(service_errors, 5)), "MEDIUM")>>
                    ELSE <<>>)
                \o (IF kernel_errors >= 1
                    THEN <<Rated("Kernel Errors", ToString(kernel_errors), "HIGH")>>
                    ELSE <<>>)
                \o (IF segfaults > 0
                    THEN <<Rated("Segmentation Faults", ToString(segfaults), "HIGH")>>
                    ELSE <<>>)
        rated_security ==
            (IF Get(ssh_config, "root_login_enabled", "") = "yes"
             THEN <<Rated("SSH Root Login", "Enabled", "HIGH")>> ELSE <<>>)
                \o (IF Get(ssh_config, "password_auth_enabled", "") = "yes"
                    THEN <<Rated("SSH Password Auth", "Enabled", "MEDIUM")>> ELSE <<>>)
                \o (IF failed_logins > 20
                    THEN <<Rated("Failed SSH Logins", ToString(failed_logins), "HIGH")>>
                    ELSE IF failed_logins > 10
                    THEN <<Rated("Failed SSH Logins", ToString(failed_logins), "MEDIUM")>>
                    ELSE <<>>)
                \o (IF auth_warnings > 5
                    THEN <<Rated("Authentication Warnings", ToString(auth_warnings), "MEDIUM")>>
                    ELSE <<>>)
        severities == {f.severity : f \in Range(rated_health \o rated_security)}
    IN  [health           |-> rated_health,
         security         |-> rated_security,
         overall_severity |-> IF "CRITICAL" \in severities THEN "CRITICAL"
                              ELSE IF "HIGH" \in severities THEN "HIGH"
                              ELSE IF "MEDIUM" \in severities THEN "MEDIUM"
                              ELSE "LOW"]

\* SystemHealthCollector._get_cpu_status, _get_memory_status, _get_disk_status
status_of(pct, critical, high, medium) ==
    IF pct >= critical THEN "[CRITICAL]"
    ELSE IF pct >= high THEN "[HIGH]"
    ELSE IF pct >= medium THEN "[MEDIUM]"
    ELSE "[OK]"

\* SystemHealthCollector.get_status
get_status(health_data) ==
    [cpu    |-> status_of(usage_percent(health_data, "cpu"), 90, 80, 60),
     memory |-> status_of(usage_percent(health_data, "memory"), 90, 80, 75),
     disk   |-> status_of(usage_percent(health_data, "disk"), 90, 85, 75)]

----------------------------------------------------------------------------
(* SNACore *)

\* collect_all_data, given what the collectors bring back
collect_all_data(health, users_services, ssh_config, log_text) ==
    [health         |-> health,
     users_services |-> users_services,
     ssh_config     |-> ssh_config,
     log_text       |-> log_text,
     log_analysis   |-> analyze(log_text)]

\* run_audit, the scored findings that severity and risk score are computed from
all_scores(data) ==
    score_health(Get(data, "health", EmptyDict))
        \o score_security(Get(data, "ssh_config", EmptyDict))
        \o score_logs(Get(data, "log_analysis", EmptyDict))

\* run_audit, the findings added for the health scores
health_findings(health_scores) ==
    [i \in 1..Len(health_scores) |->
        Issue(health_scores[i].severity,
              health_scores[i].metric \o " Usage Elevated",
              health_scores[i].metric \o " usage is at "
                  \o ToString(health_scores[i].value) \o "%",
              "Review " \o Lower(health_scores[i].metric) \o " usage patterns")]

\* run_audit, the findings of the report before the fallback
explicit_findings(data) ==
    analyze_ssh_risks(Get(data, "ssh_config", EmptyDict))
        \o analyze_findings(Get(data, "log_analysis", EmptyDict))
        \o health_findings(score_health(Get(data, "health", EmptyDict)))

\* SNACore._generate_baseline_findings
generate_baseline_findings(data) ==
    LET log_analysis == Get(data, "log_analysis", EmptyDict)
        log_categories ==
            (IF Get(log_analysis, "failed_ssh_logins", 0) = 0
             THEN <<"authentication">> ELSE <<>>)
                \o (IF Len(Get(log_analysis, "service_errors", <<>>)) = 0
                    THEN <<"services">> ELSE <<>>)
                \o (IF Get(log_analysis, "kernel_errors", 0) = 0
                    THEN <<"kernel">> ELSE <<>>)
    IN  <<Issue("LOW", "System Health Status",
                "No abnormal resource usage detected - CPU, memory, and disk are within normal ranges",
                "Continue monitoring resource usage patterns"),
          Issue("LOW", "Security Configuration Status",
                "No security misconfigurations found - SSH settings are properly configured",
                "Maintain current security posture and review periodically")>>
            \o (IF DOMAIN log_analysis # {} /\ log_categories # <<>>
                THEN <<Issue("LOW", "Log Intelligence Status",
                             "Logs show normal operational behavior - "
                                 \o Join(", ", log_categories) \o " logs are clean",
                             "Continue monitoring logs for anomalies")>>
                ELSE <<>>)

\* a report whose risk score is the top of the band of its severity
audit_report_banded(data, clock) ==
    LET report == [timestamp |-> IsoFormat(clock),
                   severity  |-> compute_overall_severity(all_scores(data))]
    IN  [timestamp       |-> report.timestamp,
         severity        |-> report.severity,
         risk_score      |-> IF report.severity = "LOW" THEN 20
                             ELSE IF report.severity = "MEDIUM" THEN 50
                             ELSE 100,
         health          |-> Get(data, "health", EmptyDict),
         security        |-> Get(data, "ssh_config", EmptyDict),
         logs            |-> Get(data, "log_analysis", EmptyDict),
         findings        |-> IF explicit_findings(data) = <<>>
                             THEN generate_baseline_findings(data)
                             ELSE explicit_findings(data),
         recommendations |-> generate(IF explicit_findings(data) = <<>>
                                      THEN generate_baseline_findings(data)
                                      ELSE explicit_findings(data), TRUE)]

\* run_audit after collect_all_data: the report it assembles, which json
\* mode returns and text mode prints (at most ten findings are printed)
audit_report(data, clock) ==
    LET scores == all_scores(data)
        explicit == explicit_findings(data)
        findings == IF explicit = <<>> THEN generate_baseline_findings(data) ELSE explicit
    IN  [timestamp       |-> IsoFormat(clock),
         severity        |-> compute_overall_severity(scores),
         risk_score      |-> compute_risk_score(scores, Get(data, "log_analysis", EmptyDict)),
         health          |-> Get(data, "health", EmptyDict),
         security        |-> Get(data, "ssh_config", EmptyDict),
         logs            |-> Get(data, "log_analysis", EmptyDict),
         findings        |-> findings,
         recommendations |-> generate(findings, TRUE)]

\* SNACore.run_audit: the report with json_output, the collected data without
run_audit(health, users_services, ssh_config, log_text, json_output, clock) ==
    LET data == collect_all_data(health, users_services, ssh_config, log_text)
    IN  IF json_output THEN audit_report(data, clock) ELSE data

----------------------------------------------------------------------------
(* Operations of BaselineManager *)

NoData == EmptyDict

Record(op, name, data) ==
    [op      |-> op,
     name    |-> name,
     data    |-> data,
     existed |-> baseline_file(name) \in DOMAIN files,
     same    |-> /\ baseline_file(name) \in DOMAIN files
                 /\ Subset(files[baseline_file(name)]) = Subset(BaselineData(data, name, 0))]

\* save() that keeps a file that already exists
save_as_keep(system_data, name) ==
    /\ files' = IF baseline_file(name) \in DOMAIN files
                THEN files
                ELSE Put(files, baseline_file(name),
                         BaselineData(system_data, name, IsoFormat(now)))
    /\ everSaved' = everSaved \cup {name}
    /\ lastOp' = Record("save", name, system_data)
    /\ ret' = baseline_file(name)
    /\ UNCHANGED now

\* save(system_data, name) with the name it ends up using
save_as(system_data, name) ==
    /\ files' = Put(files, baseline_file(name), BaselineData(system_data, name, IsoFormat(now)))
    /\ everSaved' = everSaved \cup {name}
    /\ lastOp' = Record("save", name, system_data)
    /\ ret' = baseline_file(name)
    /\ UNCHANGED now

\* save(system_data, name) with an explicit name
save(system_data, name) == save_as(system_data, name)

\* save(system_data) with name = None
save_auto(system_data) == save_as(system_data, BaselinePrefix \o StrfTime(now))

Load(name) ==
    /\ ret' = load(files, name)
    /\ lastOp' = Record("load", name, NoData)
    /\ UNCHANGED <<files, now, everSaved>>

ListBaselines ==
    /\ ret' = list_baselines(files)
    /\ lastOp' = Record("list", "", NoData)
    /\ UNCHANGED <<files, now, everSaved>>

\* compare() that saves the current data under a name it does not find
compare_saving(current_data, baseline_name) ==
    /\ ret' \in compare_results(files, now, current_data, baseline_name)
    /\ lastOp' = Record("compare", baseline_name, current_data)
    /\ files' = IF baseline_file(baseline_name) \in DOMAIN files
                THEN files
                ELSE Put(files, baseline_file(baseline_name),
                         BaselineData(current_data, baseline_name, IsoFormat(now)))
    /\ UNCHANGED <<now, everSaved>>

compare(current_data, baseline_name) ==
    /\ ret' \in compare_results(files, now, current_data, baseline_name)
    /\ lastOp' = Record("compare", baseline_name, current_data)
    /\ UNCHANGED <<files, now, everSaved>>

\* time passes between two calls
Tick ==
    /\ now < MaxTime
    /\ now' = now + 1
    /\ UNCHANGED <<files, everSaved, lastOp, ret>>

\* no call of the scoring pipeline is in progress
Idle == [fn |-> "none", args |-> <<>>, out |-> <<>>, done |-> FALSE]

----------------------------------------------------------------------------
(* Inputs *)

Pct(v) == [usage_percent |-> v]

Health(cpu, memory, disk) == [cpu |-> Pct(cpu), memory |-> Pct(memory), disk |-> Pct(disk)]

UsersServices(count, services, users) ==
    [services |-> [active_count |-> count, active_services |-> services],
     users    |-> [logged_in_count |-> users]]

Ssh(root, password) == [root_login_enabled |-> root, password_auth_enabled |-> password]

\* the system data of the store specification
StoreData ==
    {EmptyDict,
     [health         |-> Health(50, 50, 80),
      users_services |-> UsersServices(2, "cron,ssh", 1),
      ssh_config     |-> Ssh("yes", "no")],
     [health         |-> Health(65, 50, 86),
      users_services |-> UsersServices(0, "", 1),
      ssh_config     |-> Ssh("no", "no")]}

Prod == "prod"
Ghost == "ghost"

\* names given to save(): a free-form one and one shaped like a generated one
ExplicitNames == {Prod, BaselinePrefix \o "0"}

\* names asked for: the explicit ones, the generated ones and one never saved
QueryNames ==
    ExplicitNames \cup {BaselinePrefix \o StrfTime(t) : t \in 0..MaxTime} \cup {Ghost}

----------------------------------------------------------------------------
(* The baseline store: any sequence of calls on one BaselineManager *)

Init ==
    /\ files = EmptyDict
    /\ now = 0
    /\ everSaved = {}
    /\ lastOp = [op |-> "init", name |-> "", data |-> NoData, existed |-> FALSE, same |-> FALSE]
    /\ ret = None
    /\ call = Idle

SaveNamed == UNCHANGED call /\ \E d \in StoreData, n \in ExplicitNames : save(d, n)

SaveAuto == UNCHANGED call /\ \E d \in StoreData : save_auto(d)

LoadAny == UNCHANGED call /\ \E n \in QueryNames : Load(n)

ListAll == UNCHANGED call /\ ListBaselines

CompareAny == UNCHANGED call /\ \E d \in StoreData, n \in QueryNames : compare(d, n)

Clock == UNCHANGED call /\ Tick

Next ==
    \/ SaveNamed
    \/ SaveAuto
    \/ LoadAny
    \/ ListAll
    \/ CompareAny
    \/ Clock

Spec == Init /\ [][Next]_vars

----------------------------------------------------------------------------
(* Drift detection: one baseline, compared against many current snapshots *)

\* snapshots in which one usage percentage sweeps a range and the other
\* sections are missing
AxisData ==
    {[health |-> (m :> Pct(v))] : m \in {"cpu", "memory", "disk"}, v \in DriftLo..DriftHi}

\* snapshots that differ from each other in every combination of sections
CornerData ==
    {[health         |-> Health(c, m, d),
      users_services |-> UsersServices(Len(Split(s, ",")), s, Len(s) \div 4)] :
        c \in {20, 80}, m \in {20, 80}, d \in {20, 80},
        s \in {"", "cron", "ssh", "cron,ssh"}}

DriftData == AxisData \cup CornerData

\* the baseline is saved once, into the empty directory
SaveProd == UNCHANGED call /\ files = EmptyDict /\ \E d \in DriftData : save(d, Prod)

CompareProd == UNCHANGED call /\ \E d \in DriftData : compare(d, Prod)

NextDrift ==
    \/ SaveProd
    \/ CompareProd

SpecDrift == Init /\ [][NextDrift]_vars

----------------------------------------------------------------------------
(* Properties of BaselineManager *)

Compared == lastOp.op = "compare"

Drifted == Compared /\ "changes" \in DOMAIN ret

\* the positions of ret.changes that hold a change of the given kind
ChangesOf(type, metric) ==
    {i \in 1..Len(ret.changes) :
        /\ ret.changes[i].type = type
        /\ "metric" \in DOMAIN ret.changes[i] => ret.changes[i].metric = metric}

BaselineOf(name) == files[baseline_file(name)]

BaselinePct(metric) == usage_percent(Get(BaselineOf(lastOp.name), "system", EmptyDict), metric)

CurrentPct(metric) == usage_percent(Get(lastOp.data, "health", EmptyDict), metric)

\* C1: compare() against a name that has no snapshot returns a dict whose only
\* key is "error" and whose message carries exactly that name; after any
\* sequence of saves this is the result exactly when the name was never saved.
C1_NotFoundResult ==
    Compared =>
        /\ (DOMAIN ret = {"error"}) <=> (lastOp.name \notin everSaved)
        /\ lastOp.name \notin everSaved =>
               ret = [error |-> "Baseline '" \o lastOp.name \o "' not found"]
        /\ lastOp.name \in everSaved => ret.baseline_name = lastOp.name

C1_Witness ==
    /\ Compared
    /\ everSaved # {}
    /\ lastOp.name \notin everSaved
    /\ DOMAIN ret = {"error"}

\* the rank of a change in the order CPU, Memory, disk, new, removed, users
Rank(change) ==
    IF change.type = "resource_spike"
    THEN (IF change.metric = "CPU" THEN 1 ELSE 2)
    ELSE IF change.type = "disk_growth" THEN 3
    ELSE IF change.type = "new_services" THEN 4
    ELSE IF change.type = "removed_services" THEN 5
    ELSE 6

\* C2: the changes list is a subsequence of [CPU spike, Memory spike,
\* disk_growth, new_services, removed_services, user_count_change]: ranks are
\* strictly increasing, so no type occurs twice or before an earlier type.
C2_FixedOrder ==
    Drifted =>
        \A i, j \in 1..Len(ret.changes) :
            i < j => Rank(ret.changes[i]) < Rank(ret.changes[j])

C2_Witness ==
    /\ Drifted
    /\ Len(ret.changes) = 3
    /\ Rank(ret.changes[1]) = 2
    /\ Rank(ret.changes[2]) = 5
    /\ Rank(ret.changes[3]) = 6

\* C3: a disk_growth change is emitted exactly when current disk usage is
\* above baseline + 5, with change = current - baseline; a decrease and a rise
\* of exactly 5 emit none, and 80 -> 86 emits one with change 6.
C3_DiskGrowth ==
    Drifted =>
        LET b == BaselinePct("disk")
            c == CurrentPct("disk")
            disk == ChangesOf("disk_growth", "Disk")
        IN  /\ (disk # {}) <=> (c > b + 5)
            /\ \A i \in disk : /\ ret.changes[i].change = c - b
                               /\ ret.changes[i].baseline = b
                               /\ ret.changes[i].current = c
            /\ c <= b + 5 => disk = {}
            /\ (b = 80 /\ c \in {70, 85}) => disk = {}
            /\ (b = 80 /\ c = 86) => \E i \in disk : ret.changes[i].change = 6

C3_Witness ==
    /\ Drifted
    /\ BaselinePct("disk") = 80
    /\ CurrentPct("disk") = 86
    /\ \E i \in ChangesOf("disk_growth", "Disk") : ret.changes[i].change = 6

\* C4: a CPU (Memory) resource_spike is emitted exactly when the absolute
\* difference of current and baseline usage exceeds 10, for rises and drops
\* alike; a difference of exactly 10 emits none; change = current - baseline.
C4_ResourceSpike ==
    Drifted =>
        \A m \in {<<"CPU", "cpu">>, <<"Memory", "memory">>} :
            LET b == BaselinePct(m[2])
                c == CurrentPct(m[2])
                spike == ChangesOf("resource_spike", m[1])
            IN  /\ (spike # {}) <=> (c - b > 10 \/ b - c > 10)
                /\ (c - b = 10 \/ b - c = 10) => spike = {}
                /\ \A i \in spike : /\ ret.changes[i].change = c - b
                                    /\ ret.changes[i].baseline = b
                                    /\ ret.changes[i].current = c

C4_Witness ==
    /\ Drifted
    /\ BaselinePct("cpu") - CurrentPct("cpu") = 11
    /\ \E i \in ChangesOf("resource_spike", "CPU") : ret.changes[i].change = -11

\* C5: list_baselines() returns exactly the names under which a snapshot is
\* persisted, whatever the form of the name.
C5_ListsEveryName ==
    lastOp.op = "list" => Range(ret) = {Stem(f) : f \in DOMAIN files}

\* C6: saving under an existing name overwrites: load(n) then returns the
\* subset derived from the data just saved, the number of persisted snapshots
\* is unchanged, and saving data whose subset is already stored under n
\* leaves every stored subset as it was.
C6_Overwrite ==
    [][lastOp'.op = "save" =>
        LET n == lastOp'.name
            derived == Subset(BaselineData(lastOp'.data, n, 0))
        IN  /\ Subset(load(files', n)) = derived
            /\ baseline_file(n) \in DOMAIN files =>
                   Cardinality(DOMAIN files') = Cardinality(DOMAIN files)
            /\ (baseline_file(n) \in DOMAIN files /\ Subset(files[baseline_file(n)]) = derived) =>
                   /\ DOMAIN files' = DOMAIN files
                   /\ \A f \in DOMAIN files : Subset(files'[f]) = Subset(files[f])]_vars

C6_Witness ==
    /\ lastOp.op = "save"
    /\ lastOp.existed
    /\ ~lastOp.same
    /\ Subset(load(files, lastOp.name)) = Subset(BaselineData(lastOp.data, lastOp.name, 0))

\* the names compare() reports under one of the two service changes
ReportedServices(type) ==
    UNION {Range(ret.changes[i].services) : i \in ChangesOf(type, "")}

\* the names of the comma-joined string of the compared data, none for an
\* empty or a missing string
CurrentNames ==
    LET services == Get(Get(lastOp.data, "users_services", EmptyDict), "services", EmptyDict)
        text     == Get(services, "active_services", "")
    IN  IF text = "" THEN {} ELSE Range(Split(text, ","))

\* the names persisted in the baseline compared against
BaselineNames == Range(BaselineOf(lastOp.name).services.active_services)

\* C25: compare reports new_services = current names minus baseline names and
\* removed_services = baseline names minus current names, each in one change
\* exactly when it is not empty; the two are disjoint, an empty or missing
\* active_services string stands for no name at all (never for the empty
\* name), and a name in both snapshots is not reported.
C25_ServiceSets ==
    Drifted =>
        /\ ReportedServices("new_services") = CurrentNames \ BaselineNames
        /\ ReportedServices("removed_services") = BaselineNames \ CurrentNames
        /\ Cardinality(ChangesOf("new_services", "")) =
               IF CurrentNames \ BaselineNames = {} THEN 0 ELSE 1
        /\ Cardinality(ChangesOf("removed_services", "")) =
               IF BaselineNames \ CurrentNames = {} THEN 0 ELSE 1
        /\ \A i \in ChangesOf("new_services", "") \cup ChangesOf("removed_services", "") :
               /\ ret.changes[i].services # <<>>
               /\ Len(ret.changes[i].services) = Cardinality(Range(ret.changes[i].services))
        /\ ReportedServices("new_services") \cap ReportedServices("removed_services") = {}
        /\ "" \notin ReportedServices("new_services") \cup ReportedServices("removed_services")
        /\ "" \notin BaselineNames
        /\ \A n \in CurrentNames \cap BaselineNames :
               n \notin ReportedServices("new_services") \cup ReportedServices("removed_services")

\* a comparison that reports a new and a removed service and leaves out a
\* shared one, and one of an empty string against a baseline with services
C25_Witness ==
    /\ Drifted
    /\ \/ /\ ReportedServices("new_services") # {}
          /\ ReportedServices("removed_services") # {}
       \/ /\ CurrentNames = {}
          /\ "users_services" \in DOMAIN lastOp.data
          /\ Cardinality(ReportedServices("removed_services")) = 2

\* C27: compare, load and list_baselines leave the baseline directory as it
\* is, whether the name asked for has a snapshot or not; save under a name
\* writes the file of that name and leaves every other file as it is.
C27_Frame ==
    [][/\ lastOp'.op \in {"compare", "load", "list"} => files' = files
       /\ lastOp'.op = "save" =>
              /\ DOMAIN files' = DOMAIN files \cup {baseline_file(lastOp'.name)}
              /\ \A f \in DOMAIN files :
                     f # baseline_file(lastOp'.name) => files'[f] = files[f]]_vars

\* a comparison against a name without a snapshot, and a save, each with
\* snapshots of other names in the directory
C27_Witness ==
    /\ Cardinality(DOMAIN files) >= 2
    /\ \/ Compared /\ lastOp.name = Ghost
       \/ lastOp.op = "save" /\ lastOp.existed

\* the compared data is the data the baseline compared against was saved from
SameAsSaved ==
    /\ Drifted
    /\ Subset(BaselineOf(lastOp.name)) = Subset(BaselineData(lastOp.data, lastOp.name, 0))

\* C29: comparing the data a baseline was just saved from against that
\* baseline reports no change, also when the active_services string is empty
\* and when the health or the users section is missing.
C29_SaveThenCompare == SameAsSaved => ret.changes = <<>>

\* the same data compared with an empty services string, and with the users
\* and services sections missing
C29_Witness ==
    /\ SameAsSaved
    /\ ret.changes = <<>>
    /\ \/ /\ "users_services" \in DOMAIN lastOp.data
          /\ lastOp.data.users_services.services.active_services = ""
       \/ "users_services" \notin DOMAIN lastOp.data

----------------------------------------------------------------------------
(* The scorer: each function applied to one argument list *)

Severities == {"LOW", "MEDIUM", "HIGH", "CRITICAL"}

\* the values at which a tier of the threshold tables begins
TierEdges == {60, 75, 80, 85, 90}

\* health snapshots: one percentage takes every value while the other two
\* sit on tier edges, and snapshots with sections missing
HealthInputs ==
    {Health(c, m, d) : c \in 0..MaxPct, m \in TierEdges, d \in TierEdges}
        \cup {Health(c, m, d) : c \in TierEdges, m \in 0..MaxPct, d \in TierEdges}
        \cup {Health(c, m, d) : c \in TierEdges, m \in TierEdges, d \in 0..MaxPct}
        \cup {EmptyDict, [cpu |-> EmptyDict, memory |-> Pct(95)], [disk |-> Pct(75)]}

SshInputs ==
    {Ssh(r, p) : r \in {"yes", "no"}, p \in {"yes", "no"}}
        \cup {EmptyDict, [root_login_enabled |-> "yes"]}

ServiceLists == {<<>>, <<"nginx">>, <<"cron", "ssh">>}

LogRecord(failed, services, warnings, denied, segfaults, kernel, sudo, restarts) ==
    [failed_ssh_logins       |-> failed,
     authentication_failures |-> failed,
     service_errors          |-> services,
     auth_warnings           |-> warnings,
     permission_denied       |-> denied,
     segfaults               |-> segfaults,
     kernel_errors           |-> kernel,
     sudo_misuse             |-> sudo,
     service_restarts        |-> restarts]

LogInputs ==
    {LogRecord(f, s, w, 0, g, k, 0, 0) :
        f \in 0..MaxLogins, s \in ServiceLists, w \in 0..MaxCount,
        g \in 0..MaxCount, k \in 0..MaxCount}
        \cup {EmptyDict}

\* log records that differ in the flags compute_risk_score looks at
FlagInputs ==
    {LogRecord(f, s, w, 0, 0, k, 0, 0) :
        f \in {0, 1}, s \in {<<>>, <<"ssh">>}, w \in {0, 1}, k \in {0, 1}}
        \cup {EmptyDict}

\* finding lists of every length up to MaxFindings and every mix of severities
FindingLists ==
    UNION {[1..n -> {Finding(v, "Disk", 0) : v \in Severities}] : n \in 0..MaxFindings}

Pending(fn, args) == [fn |-> fn, args |-> args, out |-> <<>>, done |-> FALSE]

InitScore ==
    /\ files = EmptyDict
    /\ now = 0
    /\ everSaved = {}
    /\ lastOp = [op |-> "init", name |-> "", data |-> NoData, existed |-> FALSE, same |-> FALSE]
    /\ ret = None
    /\ \/ \E h \in HealthInputs : call = Pending("score_health", <<h>>)
       \/ \E c \in SshInputs : call = Pending("score_security", <<c>>)
       \/ \E l \in LogInputs : call = Pending("score_logs", <<l>>)
       \/ \E fs \in FindingLists : call = Pending("compute_overall_severity", <<fs>>)
       \/ \E fs \in FindingLists, l \in FlagInputs :
              call = Pending("compute_risk_score", <<fs, l>>)
       \/ \E h \in HealthInputs : call = Pending("rule_based_analysis", <<[health |-> h]>>)
       \/ \E h \in HealthInputs : call = Pending("get_status", <<h>>)

Return(value) ==
    /\ ~call.done
    /\ call' = [call EXCEPT !.out = value, !.done = TRUE]
    /\ UNCHANGED store_vars

ScoreHealth == call.fn = "score_health" /\ Return(score_health(call.args[1]))

ScoreSecurity == call.fn = "score_security" /\ Return(score_security(call.args[1]))

ScoreLogs == call.fn = "score_logs" /\ Return(score_logs(call.args[1]))

OverallSeverity ==
    call.fn = "compute_overall_severity" /\ Return(compute_overall_severity(call.args[1]))

RiskScore ==
    call.fn = "compute_risk_score" /\ Return(compute_risk_score(call.args[1], call.args[2]))

RuleBasedAnalysis ==
    call.fn = "rule_based_analysis" /\ Return(rule_based_analysis(call.args[1]))

GetStatus == call.fn = "get_status" /\ Return(get_status(call.args[1]))

NextScore ==
    \/ ScoreHealth
    \/ ScoreSecurity
    \/ ScoreLogs
    \/ OverallSeverity
    \/ RiskScore
    \/ RuleBasedAnalysis
    \/ GetStatus

SpecScore == InitScore /\ [][NextScore]_vars

----------------------------------------------------------------------------
(* Properties of SeverityScorer *)

Returned(fn) == call.fn = fn /\ call.done

\* the tier of a value in a threshold table with inclusive lower bounds
Tier(value, critical, high, medium) ==
    IF value >= critical THEN {"CRITICAL"}
    ELSE IF value >= high THEN {"HIGH"}
    ELSE IF value >= medium THEN {"MEDIUM"}
    ELSE {}

\* the severities of the findings about one metric
SeveritiesFor(findings, metric) ==
    {findings[i].severity : i \in {k \in 1..Len(findings) : findings[k].metric = metric}}

CountFor(findings, metric) ==
    Cardinality({k \in 1..Len(findings) : findings[k].metric = metric})

\* C7: per metric the scorer emits at most one finding, of the highest
\* matching tier: CPU 90/80/60, Memory 90/80/75, Disk 90/85/75 with inclusive
\* lower bounds; failed logins HIGH above 20 and MEDIUM above 10 (strict);
\* nothing below the lowest bound.
C7_ThresholdTable ==
    /\ Returned("score_health") =>
           LET h == call.args[1]
           IN  /\ \A m \in {"CPU", "Memory", "Disk"} : CountFor(call.out, m) <= 1
               /\ SeveritiesFor(call.out, "CPU") = Tier(usage_percent(h, "cpu"), 90, 80, 60)
               /\ SeveritiesFor(call.out, "Memory") = Tier(usage_percent(h, "memory"), 90, 80, 75)
               /\ SeveritiesFor(call.out, "Disk") = Tier(usage_percent(h, "disk"), 90, 85, 75)
               /\ usage_percent(h, "cpu") = 90 => SeveritiesFor(call.out, "CPU") = {"CRITICAL"}
    /\ Returned("score_logs") =>
           LET n == Get(call.args[1], "failed_ssh_logins", 0)
           IN  /\ CountFor(call.out, "Failed Logins") <= 1
               /\ SeveritiesFor(call.out, "Failed Logins") =
                      (IF n > 20 THEN {"HIGH"} ELSE IF n > 10 THEN {"MEDIUM"} ELSE {})
               /\ n = 20 => SeveritiesFor(call.out, "Failed Logins") = {"MEDIUM"}
               /\ n = 10 => SeveritiesFor(call.out, "Failed Logins") = {}

C7_Witness ==
    /\ Returned("score_health")
    /\ usage_percent(call.args[1], "cpu") = 90
    /\ usage_percent(call.args[1], "memory") = 75
    /\ usage_percent(call.args[1], "disk") = 85
    /\ call.out = <<Finding("CRITICAL", "CPU", 90), Finding("MEDIUM", "Memory", 75),
                    Finding("HIGH", "Disk", 85)>>

SeverityRank(severity) ==
    IF severity = "CRITICAL" THEN 4
    ELSE IF severity = "HIGH" THEN 3
    ELSE IF severity = "MEDIUM" THEN 2
    ELSE 1

\* C8: compute_overall_severity returns the greatest severity of the list in
\* the order CRITICAL > HIGH > MEDIUM > LOW, LOW for the empty list, and
\* CRITICAL for the list with a CRITICAL finding appended.
C8_MaxSeverity ==
    Returned("compute_overall_severity") =>
        LET fs == call.args[1]
        IN  /\ call.out \in Severities
            /\ \A i \in 1..Len(fs) : SeverityRank(fs[i].severity) <= SeverityRank(call.out)
            /\ fs # <<>> => \E i \in 1..Len(fs) : fs[i].severity = call.out
            /\ fs = <<>> => call.out = "LOW"
            /\ compute_overall_severity(Append(fs, Finding("CRITICAL", "CPU", 95))) = "CRITICAL"

C8_Witness ==
    /\ Returned("compute_overall_severity")
    /\ Len(call.args[1]) = 3
    /\ call.args[1][1].severity = "HIGH"
    /\ call.args[1][2].severity = "CRITICAL"
    /\ call.args[1][3].severity = "MEDIUM"
    /\ call.out = "CRITICAL"

CountSeverity(findings, severity) ==
    Cardinality({k \in 1..Len(findings) : findings[k].severity = severity})

\* the sum the risk score is made of, before the cap
Unclamped(findings, log) ==
    30 * CountSeverity(findings, "CRITICAL") + 15 * CountSeverity(findings, "HIGH")
        + 8 * CountSeverity(findings, "MEDIUM") + 2 * CountSeverity(findings, "LOW")
        + (IF Get(log, "failed_ssh_logins", 0) > 0 THEN 3 ELSE 0)
        + (IF Get(log, "service_errors", <<>>) # <<>> THEN 5 ELSE 0)
        + (IF Get(log, "kernel_errors", 0) > 0 THEN 10 ELSE 0)
        + (IF Get(log, "auth_warnings", 0) > 0 THEN 2 ELSE 0)

\* the log record with one more flag raised
Raised(log, flag) ==
    IF log = EmptyDict
    THEN log
    ELSE IF flag = "service_errors"
         THEN [log EXCEPT !.service_errors = <<"ssh">>]
         ELSE [log EXCEPT ![flag] = 1]

\* C9: the risk score is min(100, weights 30/15/8/2 per finding + 3 for any
\* failed login + 5 for any service error + 10 for any kernel error + 2 for
\* any auth warning): an integer in 0..100, exactly 100 when the sum is
\* above 100, and never lower after a finding is added or a flag is raised.
C9_RiskScore ==
    Returned("compute_risk_score") =>
        LET fs == call.args[1]
            log == call.args[2]
        IN  /\ call.out \in 0..100
            /\ call.out = Min(100, Unclamped(fs, log))
            /\ Unclamped(fs, log) > 100 => call.out = 100
            /\ \A v \in Severities :
                   compute_risk_score(Append(fs, Finding(v, "Disk", 0)), log) >= call.out
            /\ \A flag \in {"failed_ssh_logins", "service_errors", "kernel_errors", "auth_warnings"} :
                   compute_risk_score(fs, Raised(log, flag)) >= call.out

C9_Witness ==
    /\ Returned("compute_risk_score")
    /\ Unclamped(call.args[1], call.args[2]) > 100
    /\ call.out = 100

\* the tier a finding list gives a metric, "OK" when it has no finding for it
TierOf(findings, metric) ==
    IF \E i \in 1..Len(findings) : findings[i].metric = metric
    THEN findings[CHOOSE i \in 1..Len(findings) : findings[i].metric = metric].severity
    ELSE "OK"

\* the tier a status indicator stands for
TierOfStatus(status) == SubSeq(status, 2, Len(status) - 1)

\* the three tiers score_health gives a snapshot
ScorerTiers(health) ==
    [cpu    |-> TierOf(score_health(health), "CPU"),
     memory |-> TierOf(score_health(health), "Memory"),
     disk   |-> TierOf(score_health(health), "Disk")]

\* C23: for every health snapshot with percentages in 0..100 the legacy
\* rule_based_analysis gives each metric the tier score_health gives it, which
\* is also the tier of the status indicator of get_status, boundary values
\* included.
C23_SameTiers ==
    /\ Returned("rule_based_analysis") =>
           [cpu    |-> TierOf(call.out.health, "CPU Usage"),
            memory |-> TierOf(call.out.health, "Memory Usage"),
            disk   |-> TierOf(call.out.health, "Disk Usage")]
               = ScorerTiers(Get(call.args[1], "health", EmptyDict))
    /\ Returned("get_status") =>
           [m \in {"cpu", "memory", "disk"} |-> TierOfStatus(call.out[m])]
               = ScorerTiers(call.args[1])

----------------------------------------------------------------------------
(* The audit: run_audit applied to what the collectors bring back *)

\* n lines of the same text
RECURSIVE Lines(_, _)
Lines(line, n) == IF n = 0 THEN "" ELSE line \o "\n" \o Lines(line, n - 1)

\* the number of failed logins in the busy authentication log
BusyLogins == 11

\* the number of failed sudo attempts in the log of refused sudo calls
SudoAttempts == 6

\* the number of authentication warnings in the log of warnings
WarnLines == 6

\* what log_extract.sh prints: nothing, a busy authentication section, a
\* system section with service, kernel and crash lines, a section whose
\* header is framed with "===", and an authentication section of refused
\* sudo calls
LogTexts ==
    {"",
     "AUTHENTICATION LOG\n" \o Lines("sudo: 3 incorrect password attempts", SudoAttempts),
     "AUTHENTICATION LOG\n" \o Lines("sshd[1]: warning: auth could not identify password", WarnLines),
     "AUTHENTICATION LOG\n" \o Lines("sshd[1]: Failed password for root from 10.0.0.1", BusyLogins),
     "SYSTEM ERROR LOG\nnginx.service: Failed with result exit-code\nkernel: I/O error on sda\napp[3]: segfault at 0\n",
     "AUTHENTICATION LOG\n" \o Lines("sshd[1]: Failed password for root from 10.0.0.1", BusyLogins)
         \o "SYSTEM ERROR LOG\nnginx.service: Failed with result exit-code\n",
     "=== AUTHENTICATION LOG ===\nsshd[1]: Failed password for root from 10.0.0.1\n"}

\* health snapshots on both sides of a tier, and a failed collection
AuditHealth ==
    {Health(c, m, d) : c \in {50, 95}, m \in {50, 78}, d \in {40, 88}}
        \cup {Health(65, 78, 80), EmptyDict}

InitAudit ==
    /\ files = EmptyDict
    /\ now = 0
    /\ everSaved = {}
    /\ lastOp = [op |-> "init", name |-> "", data |-> NoData, existed |-> FALSE, same |-> FALSE]
    /\ ret = None
    /\ \E h \in AuditHealth, c \in SshInputs, t \in LogTexts, json_output \in BOOLEAN :
           \/ call = Pending("run_audit",
                             <<h, UsersServices(2, "cron,ssh", 1), c, t, json_output>>)
           \/ call = Pending("rule_based_analysis",
                             <<[health |-> h, ssh_config |-> c, log_analysis |-> analyze(t)]>>)

RunAudit ==
    /\ call.fn = "run_audit"
    /\ Return(run_audit(call.args[1], call.args[2], call.args[3], call.args[4],
                        call.args[5], now))

NextAudit ==
    \/ RunAudit
    \/ RuleBasedAnalysis

SpecAudit == InitAudit /\ [][NextAudit]_vars

----------------------------------------------------------------------------
(* Properties of the audit *)

\* a run that returned a report
Audited == call.fn = "run_audit" /\ call.done /\ call.args[5]

\* the collector a finding of a report stems from: 1 health, 2 security, 3 logs
Origin(finding) ==
    IF finding.title \in {"CPU Usage Elevated", "Memory Usage Elevated",
                          "Disk Usage Elevated", "System Health Status"}
    THEN 1
    ELSE IF finding.title \in {"SSH Root Login Enabled",
                               "SSH Password Authentication Enabled",
                               "Security Configuration Status"}
    THEN 2
    ELSE 3

\* health {cpu: 95, memory: 50, disk: 40}, root login on, password
\* authentication off, empty log text
ExampleRun ==
    /\ Audited
    /\ usage_percent(call.args[1], "cpu") = 95
    /\ usage_percent(call.args[1], "memory") = 50
    /\ usage_percent(call.args[1], "disk") = 40
    /\ Get(call.args[3], "root_login_enabled", "") = "yes"
    /\ Get(call.args[3], "password_auth_enabled", "") = "no"
    /\ call.args[4] = ""

\* C10: the findings of a report come in detection order, every health
\* finding before every security finding before every log finding; the example
\* run reports [CPU CRITICAL, SSH root login HIGH], severity CRITICAL and risk
\* score 45.
C10_DetectionOrder ==
    /\ Audited =>
           \A i, j \in 1..Len(call.out.findings) :
               i < j => Origin(call.out.findings[i]) <= Origin(call.out.findings[j])
    /\ ExampleRun =>
           /\ Len(call.out.findings) = 2
           /\ call.out.findings[1].severity = "CRITICAL"
           /\ call.out.findings[1].title = "CPU Usage Elevated"
           /\ call.out.findings[2].severity = "HIGH"
           /\ call.out.findings[2].title = "SSH Root Login Enabled"
           /\ call.out.severity = "CRITICAL"
           /\ call.out.risk_score = 45

\* C21: in every report the aggregate severity is the greatest severity among
\* the findings of that report, LOW when they are all LOW, also for log
\* records with more than five refused sudo calls.
C21_SeverityOfFindings ==
    Audited =>
        /\ \A i \in 1..Len(call.out.findings) :
               SeverityRank(call.out.findings[i].severity) <= SeverityRank(call.out.severity)
        /\ \E i \in 1..Len(call.out.findings) :
               call.out.findings[i].severity = call.out.severity

\* a finding about authentication warnings, by its metric or its title
IsAuthWarning(finding) ==
    Contains(Lower(Get(finding, "metric", "") \o " " \o Get(finding, "title", "")), "warning")

\* C26: both orchestrators report a MEDIUM finding for a log record with more
\* than five authentication warnings and none for five or fewer, and
\* score_logs makes no such finding.
C26_AuthWarningFinding ==
    /\ Audited =>
           /\ (Get(call.out.logs, "auth_warnings", 0) > 5)
                  <=> \E i \in 1..Len(call.out.findings) :
                          /\ IsAuthWarning(call.out.findings[i])
                          /\ call.out.findings[i].severity = "MEDIUM"
           /\ \A i \in 1..Len(score_logs(call.out.logs)) :
                  ~IsAuthWarning(score_logs(call.out.logs)[i])
    /\ Returned("rule_based_analysis") =>
           (Get(Get(call.args[1], "log_analysis", EmptyDict), "auth_warnings", 0) > 5)
               <=> \E i \in 1..Len(call.out.security) :
                       /\ IsAuthWarning(call.out.security[i])
                       /\ call.out.security[i].severity = "MEDIUM"

\* the findings the scorer makes of the sections of a report
Scored(report) ==
    all_scores([health |-> report.health, ssh_config |-> report.security,
                log_analysis |-> report.logs])

\* no finding of the scorer is above MEDIUM, and there is one
OnlyMediumOrLow(report) ==
    /\ Scored(report) # <<>>
    /\ \A i \in 1..Len(Scored(report)) : Scored(report)[i].severity \in {"MEDIUM", "LOW"}

\* C24: the risk score of a report is not read off its aggregate severity.
\* When every finding of the scorer is MEDIUM or LOW the severity is MEDIUM or
\* LOW, and the risk score is still the sum of the weights and the log
\* bonuses: six MEDIUM findings with the bonuses for failed logins and
\* service errors score above 50, the HIGH band.
C24_AdditiveRisk ==
    (Audited /\ OnlyMediumOrLow(call.out)) =>
        /\ call.out.severity \in {"MEDIUM", "LOW"}
        /\ call.out.risk_score = Min(100, Unclamped(Scored(call.out), call.out.logs))
        /\ Len(Scored(call.out)) >= 6 => call.out.risk_score > 50

C24_Witness ==
    /\ Audited
    /\ OnlyMediumOrLow(call.out)
    /\ call.out.severity = "MEDIUM"
    /\ call.out.risk_score > 50

----------------------------------------------------------------------------
(* The recommender: generate applied to one finding list *)

\* the longest finding list handed to generate
MaxAdvised == 2

\* findings as the scorer makes them, findings as the report carries them,
\* and findings whose own recommendation is empty, absent or a baseline one
AdvisedFindings ==
    {Finding("CRITICAL", "CPU", 95),
     Finding("MEDIUM", "cpu", 61),
     Finding("HIGH", "Memory", 80),
     Finding("HIGH", "SSH Root Login", "Enabled"),
     Finding("HIGH", "Kernel Errors", 1),
     Issue("HIGH", "SSH Root Login Enabled", "Root login via SSH is enabled.",
           "Disable root SSH login"),
     Issue("LOW", "Log Intelligence Status", "Logs are clean", baseline_recs[3]),
     Issue("LOW", "System Health Status", "Nothing found", ""),
     [severity |-> "LOW", title |-> "Open Ports"]}

AdvisedLists == UNION {[1..n -> AdvisedFindings] : n \in 0..MaxAdvised}

InitRecs ==
    /\ files = EmptyDict
    /\ now = 0
    /\ everSaved = {}
    /\ lastOp = [op |-> "init", name |-> "", data |-> NoData, existed |-> FALSE, same |-> FALSE]
    /\ ret = None
    /\ \E fs \in AdvisedLists, always_include_baseline \in BOOLEAN :
           call = Pending("generate", <<fs, always_include_baseline>>)

Generate == call.fn = "generate" /\ Return(generate(call.args[1], call.args[2]))

NextRecs == Generate

SpecRecs == InitRecs /\ [][NextRecs]_vars

----------------------------------------------------------------------------
(* Properties of RecommendationsEngine *)

NoDuplicates(list) == \A i, j \in 1..Len(list) : list[i] = list[j] => i = j

TemplateByKeyword(text) ==
    IF Contains(text, "cpu") THEN recommendation_templates.cpu_high
    ELSE IF Contains(text, "memory") THEN recommendation_templates.memory_high
    ELSE IF Contains(text, "disk") THEN recommendation_templates.disk_high
    ELSE IF Contains(text, "root") /\ Contains(text, "ssh")
    THEN recommendation_templates.ssh_root
    ELSE IF Contains(text, "password") /\ Contains(text, "ssh")
    THEN recommendation_templates.ssh_password
    ELSE IF Contains(text, "login") \/ Contains(text, "auth")
    THEN recommendation_templates.failed_logins
    ELSE IF Contains(text, "service") THEN recommendation_templates.service_errors
    ELSE IF Contains(text, "kernel") THEN recommendation_templates.kernel_errors
    ELSE IF Contains(text, "segfault") \/ Contains(text, "crash")
    THEN recommendation_templates.segfaults
    ELSE ""

\* the advice for a finding when its metric and its title are both inspected
AdviceByMetricOrTitle(finding) ==
    LET by_metric == TemplateByKeyword(Lower(Get(finding, "metric", "")))
        by_title == TemplateByKeyword(Lower(Get(finding, "title", "")))
    IN  IF by_metric # "" THEN by_metric
        ELSE IF by_title # "" THEN by_title
        ELSE Get(finding, "recommendation", "Review " \o Get(finding, "title", "issue"))

\* C22: generate picks the template by the keywords of the finding's metric or
\* title, so a finding that carries only a title with one of the keywords gets
\* that template, and only a finding without keyword falls back to its own
\* recommendation or to "Review <title>".
C22_TemplateByMetricOrTitle ==
    Returned("generate") =>
        /\ \A i \in 1..Len(call.args[1]) :
               LET advice == AdviceByMetricOrTitle(call.args[1][i])
               IN  advice # "" => advice \in Range(call.out)
        /\ Len(call.args[1]) = 1 /\ AdviceByMetricOrTitle(call.args[1][1]) # "" =>
               call.out[1] = AdviceByMetricOrTitle(call.args[1][1])

----------------------------------------------------------------------------
(* The log analyzer: analyze run line by line over one log text *)

\* the longest log text, in lines
MaxLines == 3

AuthHeader == "AUTHENTICATION LOG"
SysHeader == "SYSTEM ERROR LOG"
FramedAuthHeader == "=== AUTHENTICATION LOG ==="
FailedPassword == "sshd: Failed password"
PermissionDenied == "su: Permission denied"
AuthFailure == "pam: authentication failure"
NginxFailed == "nginx.service: Failed"
BackupFailed == "db-2.service: cron error"
NumberedFailed == "4021.service: failed"

\* the lines log_extract.sh may print
LogLines ==
    {AuthHeader, SysHeader, FramedAuthHeader, "",
     FailedPassword, AuthFailure, PermissionDenied, NginxFailed, BackupFailed,
     NumberedFailed}

LineLists == UNION {[1..n -> LogLines] : n \in 0..MaxLines}

\* the state analyze() starts its loop in
scan_start == [analysis |-> empty_analysis, auth_section |-> FALSE, sys_section |-> FALSE]

\* analyze(log_text) about to run; i counts the lines the loop has been through
PendingAnalyze(log_text) ==
    [fn    |-> "analyze",
     args  |-> <<log_text>>,
     lines |-> Split(log_text, "\n"),
     i     |-> 0,
     scan  |-> scan_start,
     again |-> <<>>,
     out   |-> <<>>,
     done  |-> FALSE]

InitLogs ==
    /\ files = EmptyDict
    /\ now = 0
    /\ everSaved = {}
    /\ lastOp = [op |-> "init", name |-> "", data |-> NoData, existed |-> FALSE, same |-> FALSE]
    /\ ret = None
    /\ \E ls \in LineLists : call = PendingAnalyze(Join("\n", ls))

\* an analyze() that returns None for an empty text
AnalyzeEmptyAbsent ==
    /\ call.fn = "analyze"
    /\ ~call.done
    /\ call.args[1] = ""
    /\ call' = [call EXCEPT !.out = None, !.done = TRUE]
    /\ UNCHANGED store_vars

\* if not log_text: return the all-zero record
AnalyzeEmpty ==
    /\ call.fn = "analyze"
    /\ ~call.done
    /\ call.args[1] = ""
    /\ call' = [call EXCEPT !.out = empty_analysis, !.done = TRUE]
    /\ UNCHANGED store_vars

\* one iteration of for line in lines
ScanLine ==
    /\ call.fn = "analyze"
    /\ ~call.done
    /\ call.args[1] # ""
    /\ call.i < Len(call.lines)
    /\ call' = [call EXCEPT !.i = @ + 1,
                            !.scan = scan_line(call.scan, call.lines[call.i + 1])]
    /\ UNCHANGED store_vars

\* a return without the final sort
AnalyzeReturnUnsorted ==
    /\ call.fn = "analyze"
    /\ ~call.done
    /\ call.args[1] # ""
    /\ call.i = Len(call.lines)
    /\ call' = [call EXCEPT !.out = call.scan.analysis, !.done = TRUE]
    /\ UNCHANGED store_vars

\* after the loop: sort the service names and return
AnalyzeReturn ==
    /\ call.fn = "analyze"
    /\ ~call.done
    /\ call.args[1] # ""
    /\ call.i = Len(call.lines)
    /\ call' = [call EXCEPT
                    !.out = [call.scan.analysis EXCEPT !.service_errors = Sorted(Range(@))],
                    !.done = TRUE]
    /\ UNCHANGED store_vars

\* a second call of analyze() on the same text
AnalyzeAgain ==
    /\ call.fn = "analyze"
    /\ call.done
    /\ call.again = <<>>
    /\ call' = [call EXCEPT !.again = <<analyze(call.args[1])>>]
    /\ UNCHANGED store_vars

NextLogs ==
    \/ AnalyzeEmpty
    \/ ScanLine
    \/ AnalyzeReturn
    \/ AnalyzeAgain

SpecLogs == InitLogs /\ [][NextLogs]_vars

----------------------------------------------------------------------------
(* Properties of LogAnalyzer *)

LogFields ==
    {"failed_ssh_logins", "authentication_failures", "service_errors", "auth_warnings",
     "permission_denied", "segfaults", "kernel_errors", "sudo_misuse", "service_restarts"}

LogCounters == LogFields \ {"service_errors"}

\* C12: analyze returns a record with the same fields for every text, and for
\* the empty text every counter is 0 and the service list is empty.
C12_EmptyInput ==
    Returned("analyze") =>
        /\ DOMAIN call.out = LogFields
        /\ call.args[1] = "" =>
               /\ \A k \in LogCounters : call.out[k] = 0
               /\ call.out.service_errors = <<>>

C12_Witness ==
    /\ Returned("analyze")
    /\ call.args[1] = ""
    /\ call.i = 0
    /\ call.out.failed_ssh_logins = 0
    /\ call.out.service_errors = <<>>

\* the counters only authentication rules raise, and those only system rules raise
AuthCounters == {"failed_ssh_logins", "authentication_failures", "auth_warnings", "sudo_misuse"}
SysCounters == {"segfaults", "kernel_errors", "service_restarts"}

HasMarker(line) == Contains(line, AuthHeader) \/ Contains(line, SysHeader)

\* a line framed with "===", which the loop passes over before it looks for
\* a marker
Framed(line) == StartsWith(Strip(line), "===")

\* the section the loop is in after the first i lines: framed lines are
\* passed over before the markers are looked for
RECURSIVE SectionAfter(_, _)
SectionAfter(lines, i) ==
    IF i = 0 THEN "none"
    ELSE IF ~Framed(lines[i]) /\ Contains(lines[i], AuthHeader) THEN "auth"
    ELSE IF ~Framed(lines[i]) /\ Contains(lines[i], SysHeader) THEN "sys"
    ELSE SectionAfter(lines, i - 1)

\* a line the loop matches against the rules
ContentLine(line) == Strip(line) # "" /\ ~Framed(line) /\ ~HasMarker(line)

AllDigits(s) == s # "" /\ \A i \in 1..Len(s) : OneOf(Char(s, i), Digits)

\* the positions of the content lines that lie in a system section
SysContent(lines) ==
    {i \in 1..Len(lines) : ContentLine(lines[i]) /\ SectionAfter(lines, i) = "sys"}

\* the line lists that differ from lines by a permutation of the content
\* lines of the system section
SysPermutations(lines) ==
    {[i \in 1..Len(lines) |-> IF i \in DOMAIN f THEN lines[f[i]] ELSE lines[i]] :
        f \in {g \in [SysContent(lines) -> SysContent(lines)] :
                  \A i, j \in DOMAIN g : g[i] = g[j] => i = j}}

\* C15: the service_errors list analyze returns is strictly increasing, holds
\* no purely numeric name, is the same when analyze runs again on the same
\* text, and is the same for every order of the content lines of the system
\* section.
C15_ServiceList ==
    Returned("analyze") =>
        LET service_errors == call.out.service_errors
        IN  /\ \A i \in 1..(Len(service_errors) - 1) :
                   StrLess(service_errors[i], service_errors[i + 1])
            /\ \A i \in 1..Len(service_errors) : ~AllDigits(service_errors[i])
            /\ call.again # <<>> => call.again[1].service_errors = service_errors
            /\ \A permuted \in SysPermutations(call.lines) :
                   analyze(Join("\n", permuted)).service_errors = service_errors

\* nginx is met before db-2 and cron, a numbered unit is met last, and
\* analyze has run twice
C15_Witness ==
    /\ Returned("analyze")
    /\ call.lines = <<SysHeader, NginxFailed, BackupFailed>>
    /\ call.scan.analysis.service_errors = <<"nginx", "db-2", "cron">>
    /\ call.out.service_errors = <<"cron", "db-2", "nginx">>
    /\ call.again # <<>>

\* the section of the marker line seen last among the first i lines, framed
\* or not
RECURSIVE MarkerSection(_, _)
MarkerSection(lines, i) ==
    IF i = 0 THEN "none"
    ELSE IF Contains(lines[i], AuthHeader) THEN "auth"
    ELSE IF Contains(lines[i], SysHeader) THEN "sys"
    ELSE MarkerSection(lines, i - 1)

\* C13: during a scan at most one section is active; header lines and blank
\* lines change nothing; lines before the first header change nothing; in the
\* authentication section no system counter and no service name changes, in
\* the system section no authentication counter changes, and a content line
\* is counted by the rules of the section whose header was seen last.
C13_Sections ==
    [][ScanLine =>
          LET line == call.lines[call.i + 1]
              before == call.scan.analysis
              after == call'.scan.analysis
              section == MarkerSection(call.lines, call.i)
          IN  /\ ~(call'.scan.auth_section /\ call'.scan.sys_section)
              /\ Strip(line) = "" \/ HasMarker(line) => after = before
              /\ section = "none" => after = before
              /\ section = "auth" =>
                     /\ \A k \in SysCounters : after[k] = before[k]
                     /\ after.service_errors = before.service_errors
                     /\ line = FailedPassword =>
                            after.failed_ssh_logins = before.failed_ssh_logins + 1
              /\ section = "sys" =>
                     /\ \A k \in AuthCounters : after[k] = before[k]
                     /\ line = NginxFailed => "nginx" \in Range(after.service_errors)
    ]_vars

\* C14: a line whose only keyword is "permission denied", in either section,
\* raises permission_denied by one and changes nothing else; a line of the
\* authentication section with "failed password" or "authentication failure"
\* raises failed_ssh_logins and authentication_failures by one each.
C14_CounterFrame ==
    [][ScanLine =>
          LET line == call.lines[call.i + 1]
              before == call.scan.analysis
              after == call'.scan.analysis
              section == MarkerSection(call.lines, call.i)
          IN  /\ line = PermissionDenied /\ section # "none" =>
                     after = [before EXCEPT !.permission_denied = @ + 1]
              /\ /\ section = "auth"
                 /\ line \in {FailedPassword, AuthFailure}
                 => /\ after.failed_ssh_logins = before.failed_ssh_logins + 1
                    /\ after.authentication_failures = before.authentication_failures + 1
    ]_vars

\* C20: every line that contains AUTHENTICATION LOG or SYSTEM ERROR LOG is a
\* section header, also when framed as in "=== AUTHENTICATION LOG ===": from
\* that line on, until the next marker line, its section is the active one.
C20_MarkerLines ==
    [][ScanLine =>
          /\ call'.scan.auth_section = (MarkerSection(call.lines, call.i + 1) = "auth")
          /\ call'.scan.sys_section = (MarkerSection(call.lines, call.i + 1) = "sys")
    ]_vars

\* C30: failed_ssh_logins equals authentication_failures in every record
\* analyze returns and after every line it scans, and every counter is a
\* natural number that no line lowers.
C30_Counters ==
    [][/\ ScanLine =>
              /\ \A k \in LogCounters :
                     /\ call'.scan.analysis[k] \in Nat
                     /\ call'.scan.analysis[k] >= call.scan.analysis[k]
              /\ call'.scan.analysis.failed_ssh_logins
                     = call'.scan.analysis.authentication_failures
       /\ (AnalyzeReturn \/ AnalyzeEmpty) =>
              /\ \A k \in LogCounters : call'.out[k] \in Nat
              /\ call'.out.failed_ssh_logins = call'.out.authentication_failures
    ]_vars

\* a record returned for a text with a failed password and an
\* authentication failure
C30_Witness ==
    /\ Returned("analyze")
    /\ call.lines = <<AuthHeader, FailedPassword, AuthFailure>>
    /\ call.out.failed_ssh_logins = 2
    /\ call.out.authentication_failures = 2

----------------------------------------------------------------------------
(* CommandRunner, the collectors and the enrichment *)

\* a str where the code's value is Optional[str]
Str(text) == [str |-> text]

\* `not output` of an Optional[str]
Empty(output) == output = None \/ output.str = ""

\* one execution of a collaborator script: whether the script file exists,
\* whether subprocess.run raised TimeoutExpired, the exit status and what the
\* script wrote to standard output
ScriptRun(exists, timed_out, returncode, stdout) ==
    [exists |-> exists, timed_out |-> timed_out, returncode |-> returncode, stdout |-> stdout]

\* CommandRunner.run_bash_script, given self.bash_cmd and the execution
run_bash_script(bash_cmd, run) ==
    IF ~run.exists
    THEN None
    ELSE IF bash_cmd = None
    THEN None
    ELSE IF run.timed_out
    THEN None
    ELSE Str(run.stdout)

\* json.dumps of a number
json_number(n) == ToString(n)

\* json.dumps of a str without characters to escape
json_string(s) == "\"" \o s \o "\""

\* what system_health.sh prints for the three usage percentages
health_json(cpu, memory, disk) ==
    "{\"cpu\": {\"usage_percent\": " \o json_number(cpu)
        \o "}, \"memory\": {\"usage_percent\": " \o json_number(memory)
        \o "}, \"disk\": {\"usage_percent\": " \o json_number(disk) \o "}}"

\* what ssh_check.sh prints for the two settings
ssh_json(root, password) ==
    "{\"root_login_enabled\": " \o json_string(root)
        \o ", \"password_auth_enabled\": " \o json_string(password) \o "}"

\* what users_services.sh prints
users_services_json(count, services, users) ==
    "{\"services\": {\"active_count\": " \o json_number(count)
        \o ", \"active_services\": " \o json_string(services)
        \o "}, \"users\": {\"logged_in_count\": " \o json_number(users) \o "}}"

\* a decoded JSON array, which has no get()
JsonArray(items) == [list |-> items]

IsList(value) == "list" \in DOMAIN value

ArrayText == "[1]"

\* the documents json.loads decodes here, each with the value it yields; any
\* other text, such as a document cut short, raises JSONDecodeError
JsonDocuments ==
    {[text |-> health_json(c, m, d), value |-> Health(c, m, d)] :
        c \in {50, 95}, m \in {50}, d \in {40}}
        \cup {[text |-> ssh_json(r, p), value |-> Ssh(r, p)] :
                 r \in {"yes", "no"}, p \in {"no"}}
        \cup {[text |-> users_services_json(2, "cron,ssh", 1),
               value |-> UsersServices(2, "cron,ssh", 1)],
              [text |-> ArrayText, value |-> JsonArray(<<1>>)]}

\* json.loads(text) returns
Decodes(text) == \E d \in JsonDocuments : d.text = text

\* json.loads
json_loads(text) == (CHOOSE d \in JsonDocuments : d.text = text).value

\* SystemHealthCollector.collect, SecurityCollector.collect_ssh_config and
\* SNACore._collect_users_services, given what run_bash_script returned
collect(output) ==
    IF Empty(output)
    THEN EmptyDict
    ELSE IF Decodes(output.str)
    THEN json_loads(output.str)
    ELSE EmptyDict

\* what collect and collect_ssh_config print to standard error
collect_errors(output, message) ==
    IF ~Empty(output) /\ ~Decodes(output.str) THEN <<message>> ELSE <<>>

\* LogAnalyzer.collect_logs, given what run_bash_script returned
collect_logs(output) == IF Empty(output) THEN "" ELSE output.str

\* the surroundings of the enrichment: whether ai_engine imports, whether an
\* API key is set, LLM_PROVIDER, and how the call of the provider ends
Engine(available, api_key, provider, reply) ==
    [available |-> available, api_key |-> api_key, provider |-> provider, reply |-> reply]

AiText == "### Recommendations\n\nRotate the SSH keys."

GeminiMissing == "Warning: google-generativeai package not installed"
GeminiFailed == "Warning: Gemini API call failed"

\* the value and the standard error of a step of the enrichment
Said(value, stderr) == [value |-> value, stderr |-> stderr]

\* AIEngine._call_gemini
call_gemini(reply) ==
    IF reply = "text"
    THEN Said(Str(AiText), <<>>)
    ELSE IF reply = "import_error"
    THEN Said(None, <<GeminiMissing>>)
    ELSE Said(None, <<GeminiFailed>>)

\* AIEngine._call_openai and AIEngine._call_anthropic
call_quiet(reply) == IF reply = "text" THEN Said(Str(AiText), <<>>) ELSE Said(None, <<>>)

\* AIEngine._generate_fallback_recommendations for an analysis without
\* health and security findings, which is what run_audit passes
generate_fallback_recommendations ==
    Join("\n", <<"### Recommendations\n",
                 "No critical issues detected. Continue regular monitoring.">>)

\* AIEngine.generate_recommendations
generate_recommendations(engine) ==
    IF ~engine.api_key
    THEN Said(None, <<>>)
    ELSE IF engine.provider = "gemini"
    THEN call_gemini(engine.reply)
    ELSE IF engine.provider \in {"openai", "anthropic"}
    THEN call_quiet(engine.reply)
    ELSE Said(Str(generate_fallback_recommendations), <<>>)

\* run_audit, the AI Analysis block: the text it prints (None when it prints
\* none) and what reaches standard error; an exception that leaves the engine
\* is caught and dropped
ai_analysis(engine) ==
    IF ~engine.available
    THEN Said(None, <<>>)
    ELSE IF engine.reply = "raise"
    THEN Said(None, <<>>)
    ELSE generate_recommendations(engine)

----------------------------------------------------------------------------
(* The audit run: run_audit step by step over the collaborator scripts *)

HealthScript == "system_health.sh"
UsersScript == "users_services.sh"
SshScript == "ssh_check.sh"
LogScript == "log_extract.sh"

Scripts == {HealthScript, UsersScript, SshScript, LogScript}

\* the key of collect_all_data's dict a script fills
Section(script) ==
    IF script = HealthScript THEN "health"
    ELSE IF script = UsersScript THEN "users_services"
    ELSE IF script = SshScript THEN "ssh_config"
    ELSE "log_text"

\* a document whose end is missing
CutShort(text) == SubSeq(text, 1, Len(text) - 1)

\* the ways a script that prints JSON can end: it prints a document and exits
\* with 0, it prints a document and exits with 1, it prints nothing and exits
\* with 1, it prints a document cut short, it prints an array where an object
\* is expected, it runs into the timeout, it is missing
JsonRuns(texts) ==
    {ScriptRun(TRUE, FALSE, rc, t) : rc \in {0, 1}, t \in texts}
        \cup {ScriptRun(TRUE, FALSE, 1, ""),
              ScriptRun(TRUE, FALSE, 0, CutShort(CHOOSE t \in texts : TRUE)),
              ScriptRun(TRUE, FALSE, 0, ArrayText),
              ScriptRun(TRUE, TRUE, 0, ""),
              ScriptRun(FALSE, FALSE, 0, "")}

\* the same for log_extract.sh, whose output is any text
TextRuns(texts) ==
    {ScriptRun(TRUE, FALSE, rc, t) : rc \in {0, 1}, t \in texts}
        \cup {ScriptRun(TRUE, FALSE, 1, ""),
              ScriptRun(TRUE, TRUE, 0, ""),
              ScriptRun(FALSE, FALSE, 0, "")}

HealthRuns == JsonRuns({health_json(95, 50, 40), health_json(50, 50, 40)})

UsersRuns == JsonRuns({users_services_json(2, "cron,ssh", 1)})

SshRuns == JsonRuns({ssh_json("yes", "no"), ssh_json("no", "no")})

LogRuns == TextRuns({"AUTHENTICATION LOG\nsshd: Failed password\n"})

Engines ==
    {Engine(FALSE, FALSE, "gemini", "text"), Engine(TRUE, FALSE, "gemini", "text")}
        \cup {Engine(TRUE, TRUE, p, r) :
                 p \in {"gemini", "openai", "anthropic", "none"},
                 r \in {"text", "error", "import_error", "raise"}}

\* run_audit(full=False, json_output) about to start
PendingRun(bash_cmd, json_output) ==
    [fn       |-> "run_audit",
     args     |-> <<json_output>>,
     bash_cmd |-> bash_cmd,
     pc       |-> HealthScript,
     runs     |-> EmptyDict,
     attempts |-> EmptyDict,
     data     |-> EmptyDict,
     report   |-> None,
     engine   |-> None,
     analysis |-> None,
     stderr   |-> <<>>,
     out      |-> <<>>,
     done     |-> FALSE]

InitRun ==
    /\ files = EmptyDict
    /\ now = 0
    /\ everSaved = {}
    /\ lastOp = [op |-> "init", name |-> "", data |-> NoData, existed |-> FALSE, same |-> FALSE]
    /\ ret = None
    /\ \E bash_cmd \in {Str("bash"), None}, json_output \in BOOLEAN :
           call = PendingRun(bash_cmd, json_output)

\* one call of run_bash_script(script) and what the collector makes of it
Acquire(script, run, value, errors, next) ==
    /\ call' = [call EXCEPT !.runs = Put(@, script, run),
                            !.attempts = Put(@, script, Get(@, script, 0) + 1),
                            !.data = Put(@, Section(script), value),
                            !.stderr = @ \o errors,
                            !.pc = next]
    /\ UNCHANGED store_vars

CollectHealth ==
    /\ call.fn = "run_audit"
    /\ ~call.done
    /\ call.pc = HealthScript
    /\ \E run \in HealthRuns :
           LET output == run_bash_script(call.bash_cmd, run)
           IN  Acquire(HealthScript, run, collect(output),
                       collect_errors(output, "Error parsing system health JSON"), UsersScript)

CollectUsersServices ==
    /\ call.fn = "run_audit"
    /\ ~call.done
    /\ call.pc = UsersScript
    /\ \E run \in UsersRuns :
           LET output == run_bash_script(call.bash_cmd, run)
           IN  Acquire(UsersScript, run, collect(output), <<>>, SshScript)

CollectSshConfig ==
    /\ call.fn = "run_audit"
    /\ ~call.done
    /\ call.pc = SshScript
    /\ \E run \in SshRuns :
           LET output == run_bash_script(call.bash_cmd, run)
           IN  Acquire(SshScript, run, collect(output),
                       collect_errors(output, "Error parsing SSH config JSON"), LogScript)

CollectLogs ==
    /\ call.fn = "run_audit"
    /\ ~call.done
    /\ call.pc = LogScript
    /\ \E run \in LogRuns :
           LET output == run_bash_script(call.bash_cmd, run)
           IN  Acquire(LogScript, run, collect_logs(output), <<>>, "score")

\* the rest of collect_all_data and run_audit up to the report: json mode
\* returns it, text mode prints it and goes on; score_health and
\* score_security call get() on what the collectors decoded
Score ==
    /\ call.fn = "run_audit"
    /\ ~call.done
    /\ call.pc = "score"
    /\ LET data == Put(call.data, "log_analysis", analyze(call.data.log_text))
           report == audit_report(data, now)
       IN  call' = IF IsList(data.health) \/ IsList(data.ssh_config)
                   THEN [call EXCEPT !.data = data, !.pc = "raised",
                                     !.out = Raises("AttributeError"), !.done = TRUE]
                   ELSE IF call.args[1]
                   THEN [call EXCEPT !.data = data, !.report = report, !.pc = "done",
                                     !.out = report, !.done = TRUE]
                   ELSE [call EXCEPT !.data = data, !.report = report, !.pc = "enrich"]
    /\ UNCHANGED store_vars

\* the AI Analysis block that takes the engine's text for the recommendations
EnrichReplacing ==
    /\ call.fn = "run_audit"
    /\ ~call.done
    /\ call.pc = "enrich"
    /\ \E engine \in Engines :
           LET said == ai_analysis(engine)
           IN  call' = [call EXCEPT !.engine = engine,
                                    !.analysis = said.value,
                                    !.report = IF said.value = None
                                               THEN @
                                               ELSE [@ EXCEPT !.recommendations =
                                                                  <<said.value.str>>],
                                    !.stderr = @ \o said.stderr,
                                    !.pc = "done",
                                    !.out = call.data,
                                    !.done = TRUE]
    /\ UNCHANGED store_vars

\* text mode: the AI Analysis block and `return data`
Enrich ==
    /\ call.fn = "run_audit"
    /\ ~call.done
    /\ call.pc = "enrich"
    /\ \E engine \in Engines :
           LET said == ai_analysis(engine)
           IN  call' = [call EXCEPT !.engine = engine,
                                    !.analysis = said.value,
                                    !.stderr = @ \o said.stderr,
                                    !.pc = "done",
                                    !.out = call.data,
                                    !.done = TRUE]
    /\ UNCHANGED store_vars

NextRun ==
    \/ CollectHealth
    \/ CollectUsersServices
    \/ CollectSshConfig
    \/ CollectLogs
    \/ Score
    \/ Enrich

SpecRun == InitRun /\ [][NextRun]_vars

----------------------------------------------------------------------------
(* Properties of the audit run *)

\* the execution ran into the timeout or ended with a non-zero exit status
FailedRun(run) == run.exists /\ (run.timed_out \/ run.returncode # 0)

\* the value is the empty/default record of the script's section
IsDefault(script, value) == IF script = LogScript THEN value = "" ELSE DOMAIN value = {}

\* C16: when a collaborator script times out or exits with a non-zero status,
\* run_bash_script yields no data and the collector puts the empty/default
\* record in that section, whatever the script wrote to standard output.
C16_FailedScriptNoData ==
    \A script \in DOMAIN call.runs :
        FailedRun(call.runs[script]) => IsDefault(script, call.data[Section(script)])

\* the acquisition did not succeed: no bash, a missing script, a timeout, a
\* non-zero exit or output that is not a JSON object
AcquisitionFailed(script) ==
    \/ call.bash_cmd = None
    \/ ~call.runs[script].exists
    \/ FailedRun(call.runs[script])
    \/ script # LogScript /\ ~Decodes(call.runs[script].stdout)
    \/ script # LogScript /\ call.runs[script].stdout = ArrayText

\* C18: whatever the outcomes of the acquisitions, each is attempted once and
\* never again, the run reaches the report and returns; when every acquisition
\* failed the report has severity LOW and risk score 0.
C18_DegradedReport ==
    /\ \A script \in DOMAIN call.attempts : call.attempts[script] = 1
    /\ call.done => DOMAIN call.attempts = Scripts /\ call.report # None
    /\ (call.done /\ \A script \in Scripts : AcquisitionFailed(script)) =>
           /\ Get(call.report, "severity", "") = "LOW"
           /\ Get(call.report, "risk_score", -1) = 0

\* a step of the AI Analysis block
EnrichStep == call.pc = "enrich" /\ call'.pc = "done"

\* the enrichment is absent, has no API key, or ends in an error
EnrichmentFailed(engine) ==
    \/ ~engine.available
    \/ ~engine.api_key
    \/ engine.reply = "raise"
    \/ engine.provider # "none" /\ engine.reply # "text"

\* the run returns the collected data with the report it had before
Recovered ==
    /\ call'.done
    /\ call'.out = call.data
    /\ call'.report = call.report

\* C19 as stated: when the enrichment is absent, has no API key or raises, the
\* run recovers silently and completes, with the findings, recommendations,
\* severity and risk score it has when the enrichment succeeds.
C19_SilentRecovery ==
    [][EnrichStep =>
           /\ Recovered
           /\ EnrichmentFailed(call'.engine) => call'.stderr = call.stderr]_vars

\* the engine called Gemini and the call failed
GeminiFault(engine) ==
    /\ engine.available
    /\ engine.api_key
    /\ engine.provider = "gemini"
    /\ engine.reply \in {"error", "import_error"}

\* C19: when the enrichment is absent, has no API key or raises, the run
\* recovers without raising and completes, silently unless the call of Gemini
\* failed, which puts one warning on standard error; the findings,
\* recommendations, severity and risk score are those it has when the
\* enrichment succeeds.
C19_Recovery ==
    [][EnrichStep =>
           /\ Recovered
           /\ EnrichmentFailed(call'.engine) =>
                  IF GeminiFault(call'.engine)
                  THEN \E warning \in {GeminiMissing, GeminiFailed} :
                           call'.stderr = Append(call.stderr, warning)
                  ELSE call'.stderr = call.stderr]_vars

\* a text run over a busy host whose Gemini call failed
C19_Witness ==
    /\ call.fn = "run_audit"
    /\ call.done
    /\ ~call.args[1]
    /\ call.engine # None
    /\ GeminiFault(call.engine)
    /\ call.analysis = None
    /\ call.stderr = <<GeminiFailed>>
    /\ call.report.severity = "CRITICAL"
    /\ Len(call.report.recommendations) > 0

----------------------------------------------------------------------------
(* The baseline commands over a directory in which a file gets damaged *)

Auto == BaselinePrefix \o "0"

\* main() around a baseline command: the exit status and what the command
\* returned or raised
Exited(command, name, current_data, value, status) ==
    [fn   |-> "main",
     args |-> <<command, name, current_data>>,
     out  |-> value,
     exit |-> status,
     done |-> TRUE]

\* two baselines are on disk
InitCli ==
    /\ \E d1 \in StoreData, d2 \in StoreData :
           files = Put(Put(EmptyDict, baseline_file(Prod), BaselineData(d1, Prod, IsoFormat(0))),
                       baseline_file(Auto), BaselineData(d2, Auto, IsoFormat(0)))
    /\ now = 0
    /\ everSaved = {Prod, Auto}
    /\ lastOp = [op |-> "init", name |-> "", data |-> NoData, existed |-> FALSE, same |-> FALSE]
    /\ ret = None
    /\ call = Idle

\* a file of the directory is cut short or overwritten from outside
Damage ==
    /\ \E f \in DOMAIN files :
           /\ files[f] # Unparsable
           /\ files' = [files EXCEPT ![f] = Unparsable]
    /\ UNCHANGED <<now, everSaved, lastOp, ret, call>>

\* BaselineManager.load called on its own
LoadOne ==
    /\ \E name \in {Prod, Auto, Ghost} :
           call' = [fn |-> "load", args |-> <<name>>, out |-> load(files, name), done |-> TRUE]
    /\ UNCHANGED store_vars

\* main() with `baseline compare <name>`: SNACore.baseline_compare, and the
\* handler of main that ends the process with status 1
MainCompare ==
    /\ \E name \in {Prod, Auto, Ghost}, current_data \in StoreData :
           \E drift \in compare_results(files, now, current_data, name) :
               call' = Exited("compare", name, current_data, drift,
                              IF drift = Raises("JSONDecodeError") THEN 1 ELSE 0)
    /\ UNCHANGED store_vars

\* main() with `baseline list`
MainList ==
    /\ call' = Exited("list", "", NoData, list_baselines(files), 0)
    /\ UNCHANGED store_vars

NextCli ==
    \/ Damage
    \/ LoadOne
    \/ MainCompare
    \/ MainList

SpecCli == InitCli /\ [][NextCli]_vars

----------------------------------------------------------------------------
(* Properties of the baseline commands *)

\* the file of the baseline is on disk and does not decode
Damaged(name) ==
    /\ baseline_file(name) \in DOMAIN files
    /\ files[baseline_file(name)] = Unparsable

\* every baseline whose file is intact loads as the document on disk
OthersLoadable ==
    \A name \in {Prod, Auto} :
        ~Damaged(name) => load(files', name) = files[baseline_file(name)]

\* C17: when the file of a baseline is unreadable or corrupt, load and compare
\* on that name fail as an error outcome of that operation only: the process
\* is not terminated, the other baselines still load and compare, and the
\* store is unchanged.
C17_CorruptBaseline ==
    [][(MainCompare /\ Damaged(call'.args[2])) =>
           /\ call'.exit = 0
           /\ "error" \in DOMAIN call'.out
           /\ files' = files
           /\ OthersLoadable]_vars

----------------------------------------------------------------------------
(* Two save() calls and a load() on one baseline name, without locking *)

\* json.dump(value, f, indent=2) of a dict that is empty or holds one usage
\* percentage, at nesting depth 2
dump_usage(section) ==
    IF section = EmptyDict
    THEN "{}"
    ELSE "{\n      \"usage_percent\": " \o json_number(section.usage_percent) \o "\n    }"

\* json.dump(value, f, indent=2) of a list of names at nesting depth 2
dump_names(names) ==
    IF names = <<>>
    THEN "[]"
    ELSE "[\n" \o Join(",\n", [i \in 1..Len(names) |-> "      " \o json_string(names[i])])
             \o "\n    ]"

\* json.dump(baseline_data, f, indent=2): the text save() writes
json_dump(baseline_data) ==
    "{\n  \"timestamp\": " \o json_string(ToString(baseline_data.timestamp))
        \o ",\n  \"name\": " \o json_string(baseline_data.name)
        \o ",\n  \"system\": {\n    \"cpu\": " \o dump_usage(baseline_data.system.cpu)
        \o ",\n    \"memory\": " \o dump_usage(baseline_data.system.memory)
        \o ",\n    \"disk\": " \o dump_usage(baseline_data.system.disk)
        \o "\n  },\n  \"services\": {\n    \"active_count\": "
        \o json_number(baseline_data.services.active_count)
        \o ",\n    \"active_services\": " \o dump_names(baseline_data.services.active_services)
        \o "\n  },\n  \"users\": {\n    \"logged_in_count\": "
        \o json_number(baseline_data.users.logged_in_count)
        \o "\n  },\n  \"security\": {\n    \"ssh_root_login\": "
        \o json_string(baseline_data.security.ssh_root_login)
        \o ",\n    \"ssh_password_auth\": "
        \o json_string(baseline_data.security.ssh_password_auth)
        \o "\n  }\n}"

\* the two processes that save
Savers == {1, 2}

\* the document a saver writes; no time passes during the two saves
SaverDoc(data) == BaselineData(data, Prod, IsoFormat(0))

\* every document that is written under the name
SaverDocs == {SaverDoc(d) : d \in StoreData}

\* json.load of the whole file: the document whose text it is, and
\* JSONDecodeError for an empty file and for a document followed by more text
json_load(text) ==
    IF \E doc \in SaverDocs : json_dump(doc) = text
    THEN CHOOSE doc \in SaverDocs : json_dump(doc) = text
    ELSE Raises("JSONDecodeError")

\* a write of text at offset 0 of a file opened without O_APPEND: the bytes
\* beyond the text stay
write_at_start(content, text) ==
    IF Len(text) >= Len(content)
    THEN text
    ELSE text \o SubSeq(content, Len(text) + 1, Len(content))

\* two save() calls about to run, on a directory that holds a snapshot of
\* the name or none
PendingSaves(before, data) ==
    [fn     |-> "save",
     before |-> before,
     savers |-> [p \in Savers |-> [pc |-> "start", data |-> data[p]]],
     closed |-> <<>>,
     loaded |-> <<>>]

InitSavers ==
    /\ now = 0
    /\ everSaved = {}
    /\ lastOp = [op |-> "init", name |-> "", data |-> NoData, existed |-> FALSE, same |-> FALSE]
    /\ ret = None
    /\ \E before \in SaverDocs \cup {None}, data \in [Savers -> StoreData] :
           /\ call = PendingSaves(before, data)
           /\ files = IF before = None
                      THEN EmptyDict
                      ELSE Put(EmptyDict, baseline_file(Prod), json_dump(before))

\* open(baseline_file, "w"): the file is created or cut to length 0
SaveOpen ==
    /\ call.fn = "save"
    /\ \E p \in Savers :
           /\ call.savers[p].pc = "start"
           /\ call' = [call EXCEPT !.savers[p].pc = "open"]
           /\ files' = Put(files, baseline_file(Prod), "")
    /\ UNCHANGED <<now, everSaved, lastOp, ret>>

\* the end of the with block: the text json.dump left in the buffer of the
\* file object (a snapshot is shorter than the buffer) is written in one
\* piece at offset 0 and the file is closed
SaveClose ==
    /\ call.fn = "save"
    /\ \E p \in Savers :
           /\ call.savers[p].pc = "open"
           /\ call' = [call EXCEPT !.savers[p].pc = "done", !.closed = Append(@, p)]
           /\ files' = Put(files, baseline_file(Prod),
                           write_at_start(files[baseline_file(Prod)],
                                          json_dump(SaverDoc(call.savers[p].data))))
    /\ UNCHANGED <<now, everSaved, lastOp, ret>>

\* load(name) of another process, which compare() starts with
LoadMeanwhile ==
    /\ call.fn = "save"
    /\ call.loaded = <<>>
    /\ call' = [call EXCEPT !.loaded =
                    <<IF baseline_file(Prod) \notin DOMAIN files
                      THEN None
                      ELSE json_load(files[baseline_file(Prod)])>>]
    /\ UNCHANGED store_vars

NextSavers ==
    \/ SaveOpen
    \/ SaveClose
    \/ LoadMeanwhile

SpecSavers == InitSavers /\ [][NextSavers]_vars

\* both saves have returned
BothSaved == call.fn = "save" /\ \A p \in Savers : call.savers[p].pc = "done"

\* C28: after two concurrent saves of one name the file holds the complete
\* snapshot of the one that finished last, and a load at any moment returns
\* the snapshot from before the saves or the complete snapshot of a save.
C28_LastWriterWins ==
    /\ BothSaved =>
           json_load(files[baseline_file(Prod)]) = SaverDoc(call.savers[call.closed[2]].data)
    /\ (call.fn = "save" /\ call.loaded # <<>>) =>
           call.loaded[1] \in {call.before} \cup {SaverDoc(call.savers[p].data) : p \in Savers}

====
